---- MODULE Spec2Model ----
(***************************************************************************)
(* Guandan server core: cards and rules (shared/types, shared/deck,        *)
(* shared/rules), the bot strategy (shared/bot) and the per-deal engine    *)
(* (server/game.ts), in Normal game mode.                                  *)
(***************************************************************************)
EXTENDS Integers, Sequences, FiniteSets, TLC

\* ------------------------------------------------------------------ bounds
\* number of seeds of the random source tried by the shuffler
NumShuffles == 2
\* number of seeds tried for the deal of four bots
NumBotShuffles == 12
\* longest card list a client puts into a playHand message
MaxPlayLen == 2
\* pending bot-decision timers kept per seat
MaxTimers == 2
MaxSockets == 4
MaxMatches == 2
MaxClients == 2
MaxBombCount == 7

\* ------------------------------------------------------- shared/types.ts
Spades == 0
Hearts == 1
Clubs == 2
Diamonds == 3
Joker == 4

Ace == 14
SmallJoker == 15
BigJoker == 16

Seats == 0..3

\* a Card record: id (identity tag), rank, suit, isWild
mkCard(id, suit, rank) == [id |-> id, suit |-> suit, rank |-> rank, isWild |-> FALSE]

\* null for a Hand
NoHand == [type |-> "null", value |-> 0, bombCount |-> 0, len |-> 0]

\* a Hand record; of the cards only their number is ever read by the server
mkHand(type, cards, value, bombCount) ==
    [type |-> type, value |-> value, bombCount |-> bombCount, len |-> Len(cards)]

\* ------------------------------------------------------------- utilities
SetMax(S) == CHOOSE x \in S : \A y \in S : y <= x
SetMin(S) == CHOOSE x \in S : \A y \in S : x <= y
Range(s) == {s[i] : i \in 1..Len(s)}

\* Array.prototype.filter
RECURSIVE SelectSeqBy(_, _)
SelectSeqBy(s, keep) ==
    IF s = <<>> THEN <<>>
    ELSE (IF Head(s) \in keep THEN <<Head(s)>> ELSE <<>>) \o SelectSeqBy(Tail(s), keep)

\* ------------------------------------------------------- shared/deck.ts
\* The cards of createDeck() the model deals: eight of the 108, two per
\* seat instead of 27 (ids are suit-rank-copy, jokers joker-big-copy).
DeckCards ==
    << mkCard("0-14-0", Spades, Ace),
       mkCard("0-3-0", Spades, 3),
       mkCard("0-3-1", Spades, 3),
       mkCard("1-2-0", Hearts, 2),
       mkCard("joker-big-0", Joker, BigJoker),
       mkCard("joker-big-1", Joker, BigJoker),
       mkCard("2-5-0", Clubs, 5),
       mkCard("0-14-1", Spades, Ace) >>

DeckSize == Len(DeckCards)
HandSize == DeckSize \div 4

createDeck == DeckCards

\* Math.floor(Math.random() * (i + 1)) at step i of the shuffle, one
\* sequence of draws per seed
randomIndex(seed, i) == (3 * i * (seed + 1)) % (i + 1)

swap(s, i, j) == [k \in 1..Len(s) |-> IF k = i THEN s[j] ELSE IF k = j THEN s[i] ELSE s[k]]

\* Fisher-Yates of shuffleDeck, i from length-1 down to 1 (0-based)
RECURSIVE shuffleFrom(_, _, _)
shuffleFrom(cards, i, seed) ==
    IF i < 1 THEN cards
    ELSE shuffleFrom(swap(cards, i + 1, randomIndex(seed, i) + 1), i - 1, seed)

shuffleDeck(cards, seed) == shuffleFrom(cards, Len(cards) - 1, seed)

updateCardProperties(cards, currentLevel) ==
    [i \in 1..Len(cards) |->
        [cards[i] EXCEPT !.isWild = (cards[i].rank = currentLevel /\ cards[i].suit = Hearts)]]

\* ------------------------------------------------------ shared/rules.ts
getLogicValue(rank, level) ==
    IF rank = SmallJoker THEN 20
    ELSE IF rank = BigJoker THEN 21
    ELSE IF rank = level THEN 19
    ELSE IF rank = Ace THEN 14
    ELSE rank

\* the comparator of sortCards is negative: a goes before b
cardBefore(a, b, level) ==
    LET valA == getLogicValue(a.rank, level)
        valB == getLogicValue(b.rank, level)
    IN  IF valA # valB THEN valB - valA < 0 ELSE b.suit - a.suit < 0

RECURSIVE insertCard(_, _, _)
insertCard(c, s, level) ==
    IF s = <<>> THEN <<c>>
    ELSE IF cardBefore(c, Head(s), level) THEN <<c>> \o s
    ELSE <<Head(s)>> \o insertCard(c, Tail(s), level)

\* stable sort, descending by logic value, then by suit
RECURSIVE sortCards(_, _)
sortCards(cards, level) ==
    IF cards = <<>> THEN <<>>
    ELSE insertCard(cards[Len(cards)], sortCards(SubSeq(cards, 1, Len(cards) - 1), level), level)

RECURSIVE insertInt(_, _)
insertInt(x, s) ==
    IF s = <<>> THEN <<x>>
    ELSE IF x < Head(s) THEN <<x>> \o s
    ELSE <<Head(s)>> \o insertInt(x, Tail(s))

\* [...cards].sort((a,b) => a.rank - b.rank), ranks only
RECURSIVE sortedRanks(_)
sortedRanks(cards) ==
    IF cards = <<>> THEN <<>>
    ELSE insertInt(cards[Len(cards)].rank, sortedRanks(SubSeq(cards, 1, Len(cards) - 1)))

getHandType(cards, level) ==
    LET len == Len(cards)
        idx == 1..len
        wildCount == Cardinality({i \in idx : cards[i].isWild})
        nonWilds == {i \in idx : ~cards[i].isWild}
        val(i) == getLogicValue(cards[i].rank, level)
        uniqueValues == {val(i) : i \in nonWilds}
        counts(v) == Cardinality({i \in nonWilds : val(i) = v})
        maxCount == SetMax({counts(v) : v \in uniqueValues} \cup {0})
        \* uniqueValues[0] || 19
        topOr19 == IF uniqueValues = {} THEN 19 ELSE SetMax(uniqueValues)
        smallJokers == Cardinality({i \in idx : cards[i].rank = SmallJoker})
        bigJokers == Cardinality({i \in idx : cards[i].rank = BigJoker})
        \* 5. the values tVal for which the TripsWithPair loop returns
        tripsVals ==
            {tVal \in uniqueValues :
                /\ tVal <= 19
                /\ LET tCount == counts(tVal)
                       wildsForTrips == IF 3 - tCount > 0 THEN 3 - tCount ELSE 0
                       remWilds == wildCount - wildsForTrips
                       otherVals == uniqueValues \ {tVal}
                   IN  /\ wildCount >= wildsForTrips
                       /\ Cardinality(otherVals) = 1
                       /\ \A pVal \in otherVals :
                             pVal <= 19 /\ counts(pVal) + remWilds >= 2}
        \* 6. Straight
        ranks == {cards[i].rank : i \in {j \in nonWilds : cards[j].rank <= Ace}}
        ranksLen == Cardinality({j \in nonWilds : cards[j].rank <= Ace})
        noHighNonWild == \A i \in nonWilds : cards[i].rank <= Ace
        ranksLowA == {IF r = 14 THEN 1 ELSE r : r \in ranks}
        val1 == IF SetMax(ranks) - SetMin(ranks) <= 4 /\ SetMin(ranks) + 4 <= 14
                THEN SetMin(ranks) + 4 ELSE -1
        straightVal ==
            IF 14 \in ranks /\ SetMax(ranksLowA) - SetMin(ranksLowA) <= 4
               /\ (val1 = -1 \/ 5 > val1)
            THEN 5 ELSE val1
        suits == {cards[i].suit : i \in nonWilds}
        s == sortedRanks(cards)
    IN
    IF len = 0 THEN NoHand
    ELSE IF len = 4 /\ smallJokers = 2 /\ bigJokers = 2
        THEN mkHand("FourKings", cards, 999, 0)
    ELSE IF len = 1
        THEN mkHand("Single", cards, IF cards[1].isWild THEN 19 ELSE val(1), 0)
    ELSE IF len = 2 /\ wildCount = 2 THEN mkHand("Pair", cards, 19, 0)
    ELSE IF len = 2 /\ wildCount = 1
        THEN (IF \E i \in nonWilds : cards[i].rank > Ace THEN NoHand
              ELSE mkHand("Pair", cards, topOr19, 0))
    ELSE IF len = 2 /\ Cardinality(uniqueValues) = 1
        THEN mkHand("Pair", cards, topOr19, 0)
    ELSE IF len = 3 /\ wildCount = 3 THEN mkHand("Trips", cards, 19, 0)
    ELSE IF len = 3 /\ Cardinality(uniqueValues) = 1 /\ counts(topOr19) + wildCount = 3
        THEN (IF topOr19 > 19 THEN NoHand ELSE mkHand("Trips", cards, topOr19, 0))
    ELSE IF len = 5 /\ maxCount + wildCount = 5
        THEN mkHand("Bomb", cards, topOr19, 5)
    ELSE IF len = 5 /\ tripsVals # {}
        THEN mkHand("TripsWithPair", cards, SetMax(tripsVals), 0)
    ELSE IF len = 5 /\ noHighNonWild /\ Cardinality(ranks) = ranksLen /\ ranksLen = 0
        THEN mkHand("Straight", cards, 14, 0)
    ELSE IF len = 5 /\ noHighNonWild /\ Cardinality(ranks) = ranksLen /\ straightVal # -1
        THEN (IF Cardinality(suits) <= 1
              THEN mkHand("StraightFlush", cards, straightVal, 5)
              ELSE mkHand("Straight", cards, straightVal, 0))
    ELSE IF len >= 4 /\ maxCount + wildCount = len /\ Cardinality(uniqueValues) <= 1
            /\ topOr19 <= 19
        THEN mkHand("Bomb", cards, topOr19, len)
    ELSE IF len = 6 /\ wildCount = 0
            /\ s[1] = s[2] /\ s[3] = s[4] /\ s[5] = s[6]
            /\ s[3] = s[1] + 1 /\ s[5] = s[3] + 1
        THEN mkHand("Tube", cards, s[5], 0)
    ELSE IF len = 6 /\ wildCount = 0
            /\ s[1] = s[2] /\ s[3] = s[4] /\ s[5] = s[6]
            /\ s[5] = 14 /\ s[1] = 2 /\ s[3] = 3
        THEN mkHand("Tube", cards, 3, 0)
    ELSE IF len = 6 /\ wildCount = 0
            /\ s[1] = s[2] /\ s[2] = s[3] /\ s[4] = s[5] /\ s[5] = s[6]
            /\ s[4] = s[1] + 1
        THEN mkHand("Plate", cards, s[4], 0)
    ELSE NoHand

isBomb(h) == h.type = "Bomb" \/ h.type = "StraightFlush"

\* a StraightFlush scores 4.5, between the bombs of four and of five
getScore2BelowFive(h) == IF h.type = "StraightFlush" THEN 9 ELSE 2 * h.bombCount

\* getScore, doubled: a StraightFlush scores 5.5
getScore2(h) == IF h.type = "StraightFlush" THEN 11 ELSE 2 * h.bombCount

\* the sign of the result is the sign of the program's result; the bomb
\* score difference is doubled to stay in the integers
compareHands(handA, handB) ==
    IF handA.type = "FourKings" THEN 1
    ELSE IF handB.type = "FourKings" THEN -1
    ELSE IF isBomb(handA) /\ ~isBomb(handB) THEN 1
    ELSE IF ~isBomb(handA) /\ isBomb(handB) THEN -1
    ELSE IF isBomb(handA) /\ isBomb(handB)
        THEN (IF getScore2(handA) # getScore2(handB)
              THEN getScore2(handA) - getScore2(handB)
              ELSE handA.value - handB.value)
    ELSE IF handA.type # handB.type THEN 0
    ELSE IF handA.len # handB.len THEN 0
    ELSE handA.value - handB.value

getLargestCard(cards, level) == sortCards(cards, level)[1]

\* no call is held
NoCall == [fn |-> "none", args |-> <<>>, result |-> <<>>]

\* ------------------------------------------------------- server/game.ts
VARIABLES
    players,        \* players[seat].isBot
    prevWinners,    \* finishing order of the previous deal, <<>> on a first deal
    currentPhase,
    level,
    hands,
    currentTurn,
    lastHand,       \* [playerIndex, hand], NoLast for null
    roundActions,   \* per seat "play", "pass" or "none" (no entry)
    winners,
    tributeState,   \* [pendingTributes, pendingReturns, nextStartPlayer]
    teamLevels,
    activeTeam,
    botTimers,      \* pending setTimeout(handleBotTurn(seat)) per seat
    gameEndCalls,   \* number of times onGameEnd was invoked
    played,         \* ids of the cards taken out of hands by accepted plays
    tributeCards,   \* per payer, the tribute card recorded for it (NoCard: none)
    dealt,          \* the hands as start() dealt and sorted them
    tributeEdges,   \* the payer-to-recipient pairs initTributePhase made pending
    ev,             \* the last handled command and its outcome
    room,           \* the Room: its seats, its match handle, its last event
    matches,        \* the Match objects the Room created, in order
    call            \* a call of a function of shared/rules.ts on its own

vars == << players, prevWinners, currentPhase, level, hands, currentTurn, lastHand,
           roundActions, winners, tributeState, teamLevels, activeTeam, botTimers,
           gameEndCalls, played, tributeCards, dealt, tributeEdges, ev, room, matches,
           call >>

NoCard == [id |-> "", suit |-> -1, rank |-> -1, isWild |-> FALSE]
NoLast == [playerIndex |-> -1, hand |-> NoHand]
NoActions == [s \in Seats |-> "none"]
EmptyTribute == [pendingTributes |-> <<>>, pendingReturns |-> <<>>, nextStartPlayer |-> <<>>]

isSameTeam(a, b) == (a % 2) = (b % 2)

ids(cards) == {cards[i].id : i \in 1..Len(cards)}

\* hand.filter(c => c.id !== card.id) and its generalisation to a card list
RECURSIVE withoutIds(_, _)
withoutIds(hand, drop) ==
    IF hand = <<>> THEN <<>>
    ELSE (IF Head(hand).id \in drop THEN <<>> ELSE <<Head(hand)>>) \o withoutIds(Tail(hand), drop)

RECURSIVE onlyIds(_, _)
onlyIds(hand, keep) ==
    IF hand = <<>> THEN <<>>
    ELSE (IF Head(hand).id \in keep THEN <<Head(hand).id>> ELSE <<>>) \o onlyIds(Tail(hand), keep)

\* the mutable fields of the Game object, with the timers it has scheduled
G == [players |-> players, prevWinners |-> prevWinners,
      currentPhase |-> currentPhase, level |-> level, hands |-> hands,
      currentTurn |-> currentTurn, lastHand |-> lastHand, roundActions |-> roundActions,
      winners |-> winners, tributeState |-> tributeState, teamLevels |-> teamLevels,
      activeTeam |-> activeTeam, botTimers |-> botTimers, gameEndCalls |-> gameEndCalls,
      played |-> played, tributeCards |-> tributeCards, dealt |-> dealt,
      tributeEdges |-> tributeEdges, ev |-> ev]

mkEv(op, via, seat, res, cards, hand) ==
    [op |-> op, via |-> via, seat |-> seat, res |-> res, cards |-> cards, hand |-> hand]

\* a hand as a snapshot shows it: the cards, or nothing but their number
shown(h) == [cards |-> h, count |-> Len(h)]
countOnly(h) == [cards |-> <<>>, count |-> Len(h)]

\* the partner's cards are shown as well
gameStateHandsOfTeam(h, idx) ==
    [i \in Seats |-> IF isSameTeam(i, idx) THEN shown(h[i]) ELSE countOnly(h[i])]

\* the hands field of the gameState event broadcastGameState sends to the
\* socket of seat idx: this.hands.map((h, i) => i === idx ? h : h.length)
gameStateHands(h, idx) ==
    [i \in Seats |-> IF i = idx THEN shown(h[i]) ELSE countOnly(h[i])]

\* the hands field of the gameState event Room.addPlayer sends to the
\* socket that takes the seat of player p back
reconnectHands(h, p) ==
    [i \in Seats |-> IF i = p.seatIndex THEN shown(h[i]) ELSE countOnly(h[i])]

\* broadcastGameState: the snapshots go to the sockets; a bot decision is
\* scheduled when the seat to act is a bot
broadcastGameState(g) ==
    IF /\ g.currentTurn \in Seats
       /\ g.players[g.currentTurn].isBot
       /\ g.currentPhase = "Playing"
       /\ Len(g.winners) < 3
    THEN [g EXCEPT !.botTimers[g.currentTurn] =
                        IF @ < MaxTimers THEN @ + 1 ELSE @]
    ELSE g

endGame(g) ==
    LET g1 == broadcastGameState([g EXCEPT !.currentPhase = "Score"])
    IN  [g1 EXCEPT !.gameEndCalls = @ + 1]

\* endRoundAndFindNext as it would be if the last play stayed on the table
endRoundAndFindNextKeepsLast(g, w) ==
    LET winner == IF Len(g.hands[w]) = 0 THEN (w + 2) % 4 ELSE w
        g1 == [g EXCEPT !.roundActions = NoActions]
        order == << winner, (winner + 1) % 4, (winner + 2) % 4, (winner + 3) % 4 >>
        found == {i \in 1..4 : Len(g.hands[order[i]]) > 0}
    IN  IF found # {}
        THEN broadcastGameState([g1 EXCEPT !.currentTurn = order[SetMin(found)]])
        ELSE endGame(g1)

\* endRoundAndFindNext as it would be without the hand-over to the partner
endRoundAndFindNextNoJieFeng(g, w) ==
    LET g1 == [g EXCEPT !.lastHand = NoLast, !.roundActions = NoActions]
        order == << w, (w + 1) % 4, (w + 2) % 4, (w + 3) % 4 >>
        found == {i \in 1..4 : Len(g.hands[order[i]]) > 0}
    IN  IF found # {}
        THEN broadcastGameState([g1 EXCEPT !.currentTurn = order[SetMin(found)]])
        ELSE endGame(g1)

endRoundAndFindNext(g, w) ==
    LET winner == IF Len(g.hands[w]) = 0 THEN (w + 2) % 4 ELSE w
        g1 == [g EXCEPT !.lastHand = NoLast, !.roundActions = NoActions]
        order == << winner, (winner + 1) % 4, (winner + 2) % 4, (winner + 3) % 4 >>
        found == {i \in 1..4 : Len(g.hands[order[i]]) > 0}
    IN  IF found # {}
        THEN broadcastGameState([g1 EXCEPT !.currentTurn = order[SetMin(found)]])
        ELSE endGame(g1)

\* the loop of advanceTurn as it would be without the skip of a finished seat
advanceLoopNoSkip(g, next, i) ==
    IF g.lastHand # NoLast /\ next = g.lastHand.playerIndex
    THEN endRoundAndFindNext(g, next)
    ELSE [g EXCEPT !.currentTurn = next]

\* the loop of advanceTurn as it would be with the skip of a finished seat
\* ahead of the test for the seat of the last play
RECURSIVE advanceLoopSkipsFirst(_, _, _)
advanceLoopSkipsFirst(g, next, i) ==
    IF i >= 4 THEN endGame(g)
    ELSE IF Len(g.hands[next]) = 0 THEN advanceLoopSkipsFirst(g, (next + 1) % 4, i + 1)
    ELSE IF g.lastHand # NoLast /\ next = g.lastHand.playerIndex
        THEN endRoundAndFindNext(g, next)
    ELSE [g EXCEPT !.currentTurn = next]

\* the loop of advanceTurn; skipNextTurn stays all false outside Skill mode
RECURSIVE advanceLoop(_, _, _)
advanceLoop(g, next, i) ==
    IF i >= 4 THEN endGame(g)
    ELSE IF g.lastHand # NoLast /\ next = g.lastHand.playerIndex
        THEN endRoundAndFindNext(g, next)
    ELSE IF Len(g.hands[next]) = 0 THEN advanceLoop(g, (next + 1) % 4, i + 1)
    ELSE [g EXCEPT !.currentTurn = next]

advanceTurn(g) == advanceLoop(g, (g.currentTurn + 1) % 4, 0)

checkReturnDone(g) ==
    LET rs == g.tributeState.pendingReturns
        allDone == \A i \in 1..Len(rs) : rs[i].card # NoCard
    IN  IF allDone
        THEN broadcastGameState(
               [g EXCEPT !.currentPhase = "Playing",
                         !.currentTurn = IF g.tributeState.nextStartPlayer # <<>>
                                         THEN g.tributeState.nextStartPlayer[1]
                                         ELSE g.prevWinners[1],
                         !.tributeState = EmptyTribute])
        ELSE g

\* one card moves from seat `from` to seat `to`, whose hand is re-sorted
moveCard(g, from, to, card) ==
    LET h1 == [g.hands EXCEPT ![from] = withoutIds(@, {card.id})]
    IN  [g EXCEPT !.hands = [h1 EXCEPT ![to] = sortCards(Append(@, card), g.level)]]

\* pendingTributes.forEach of processAutoTribute, entries i..
RECURSIVE autoTributes(_, _)
autoTributes(g, i) ==
    IF i > Len(g.tributeState.pendingTributes) THEN g
    ELSE LET t == g.tributeState.pendingTributes[i]
             largest == getLargestCard(g.hands[t.from], g.level)
         IN  IF g.players[t.from].isBot
             THEN autoTributes(
                    [moveCard(g, t.from, t.to, largest)
                        EXCEPT !.tributeState.pendingTributes[i].card = largest,
                               !.tributeCards[t.from] = largest], i + 1)
             ELSE autoTributes(g, i + 1)

\* pendingReturns.forEach of processAutoTribute, entries i..
RECURSIVE autoReturns(_, _)
autoReturns(g, i) ==
    IF i > Len(g.tributeState.pendingReturns) THEN g
    ELSE LET r == g.tributeState.pendingReturns[i]
             hand == g.hands[r.from]
             smallest == hand[Len(hand)]
         IN  IF g.players[r.from].isBot
             THEN autoReturns(
                    [moveCard(g, r.from, r.to, smallest)
                        EXCEPT !.tributeState.pendingReturns[i].card = smallest], i + 1)
             ELSE autoReturns(g, i + 1)

toReturns(ts) == [i \in 1..Len(ts) |-> [from |-> ts[i].to, to |-> ts[i].from, card |-> NoCard]]

processAutoTribute(g) ==
    LET g1 == autoTributes(g, 1)
        ts == g1.tributeState.pendingTributes
        allDone == \A i \in 1..Len(ts) : ts[i].card # NoCard
        g2 == [g1 EXCEPT !.currentPhase = "ReturnTribute",
                         !.tributeState.pendingReturns = toReturns(ts),
                         !.tributeState.pendingTributes = <<>>]
    IN  IF allDone THEN checkReturnDone(autoReturns(g2, 1)) ELSE g1

\* the tribute edges of a finishing order: the last two pay the first two
\* after a double win, the last pays the first otherwise
pendingFor(p1, p2, p3, p4) ==
    LET edge(a, b) == [from |-> a, to |-> b, card |-> NoCard]
    IN  IF isSameTeam(p1, p2) THEN << edge(p4, p1), edge(p3, p2) >> ELSE << edge(p4, p1) >>

\* the BigJokers the would-be payers hold
bigJokerCount(h, p1, p2, p3, p4) ==
    LET bigJokers(seat) == Cardinality({i \in 1..Len(h[seat]) : h[seat][i].rank = 16})
    IN  IF isSameTeam(p1, p2) THEN bigJokers(p3) + bigJokers(p4) ELSE bigJokers(p4)

\* tribute begins whoever holds the BigJokers
initTributePhaseNoResistance(g) ==
    LET p1 == g.prevWinners[1]
        p2 == g.prevWinners[2]
        p3 == g.prevWinners[3]
        p4 == g.prevWinners[4]
        g0 == [g EXCEPT !.tributeState = EmptyTribute]
        pending == pendingFor(p1, p2, p3, p4)
    IN  IF Len(g.prevWinners) < 4
        THEN [g EXCEPT !.currentPhase = "Playing", !.currentTurn = g.activeTeam]
        ELSE IF ~isSameTeam(p1, p2) /\ isSameTeam(p1, p4)
        THEN [g0 EXCEPT !.currentPhase = "Playing", !.currentTurn = p1]
        ELSE processAutoTribute(
               [g0 EXCEPT !.currentPhase = "Tribute", !.tributeState.pendingTributes = pending,
                          !.tributeEdges = {<< pending[i].from, pending[i].to >> : i \in 1..Len(pending)}])

\* the last seat pays the first even when they are partners
initTributePhaseNoTie(g) ==
    LET p1 == g.prevWinners[1]
        p2 == g.prevWinners[2]
        p3 == g.prevWinners[3]
        p4 == g.prevWinners[4]
        g0 == [g EXCEPT !.tributeState = EmptyTribute]
        pending == pendingFor(p1, p2, p3, p4)
    IN  IF Len(g.prevWinners) < 4
        THEN [g EXCEPT !.currentPhase = "Playing", !.currentTurn = g.activeTeam]
        ELSE IF bigJokerCount(g.hands, p1, p2, p3, p4) = 2
        THEN [g0 EXCEPT !.currentPhase = "Playing", !.currentTurn = p1]
        ELSE processAutoTribute(
               [g0 EXCEPT !.currentPhase = "Tribute", !.tributeState.pendingTributes = pending,
                          !.tributeEdges = {<< pending[i].from, pending[i].to >> : i \in 1..Len(pending)}])

initTributePhase(g) ==
    IF Len(g.prevWinners) < 4
    THEN [g EXCEPT !.currentPhase = "Playing", !.currentTurn = g.activeTeam]
    ELSE
    LET p1 == g.prevWinners[1]
        p2 == g.prevWinners[2]
        p3 == g.prevWinners[3]
        p4 == g.prevWinners[4]
        g0 == [g EXCEPT !.tributeState = EmptyTribute]
        isDouble == isSameTeam(p1, p2)
        pending == pendingFor(p1, p2, p3, p4)
    IN  IF ~isDouble /\ isSameTeam(p1, p4)
        THEN [g0 EXCEPT !.currentPhase = "Playing", !.currentTurn = p1]
        ELSE IF bigJokerCount(g.hands, p1, p2, p3, p4) = 2
        THEN [g0 EXCEPT !.currentPhase = "Playing", !.currentTurn = p1]
        ELSE processAutoTribute(
               [g0 EXCEPT !.currentPhase = "Tribute", !.tributeState.pendingTributes = pending,
                          !.tributeEdges = {<< pending[i].from, pending[i].to >> : i \in 1..Len(pending)}])

\* hands[i % 4].push(deck[i]) for the shuffled deck
dealHands(deck) ==
    [s \in Seats |-> SelectSeqBy(deck, {deck[i] : i \in {j \in 1..Len(deck) : (j - 1) % 4 = s}})]

\* start() on the cards that createDeck() returned
startWith(g, cards, seed) ==
    LET fresh == Len(g.prevWinners) = 0 /\ Len(g.winners) = 0
        tl == IF fresh THEN [t \in {0, 1} |-> 2] ELSE g.teamLevels
        at == IF fresh THEN 0 ELSE g.activeTeam
        lv == tl[at]
        deck == dealHands(shuffleDeck(cards, seed))
        sorted == [s \in Seats |-> sortCards(updateCardProperties(deck[s], lv), lv)]
        g1 == [g EXCEPT !.currentPhase = "Dealing", !.teamLevels = tl, !.activeTeam = at,
                        !.level = lv, !.hands = sorted, !.dealt = sorted]
        g2 == IF Len(g.prevWinners) > 0 THEN initTributePhase(g1)
              ELSE [g1 EXCEPT !.currentTurn = 0, !.currentPhase = "Playing", !.lastHand = NoLast]
    IN  broadcastGameState(g2)

start(g, seed) == startWith(g, createDeck, seed)

\* index of the first entry of a pending list from this seat without a card
\* (Array.prototype.find), 0 when there is none
findPending(list, seatIndex) ==
    LET hits == {i \in 1..Len(list) : list[i].from = seatIndex /\ list[i].card = NoCard}
    IN  IF hits = {} THEN 0 ELSE SetMin(hits)

\* the payer of the largest tribute card; the first entry keeps a tie
RECURSIVE maxPayerFrom(_, _, _, _, _)
maxPayerFrom(ts, i, lv, maxVal, maxPayer) ==
    IF i > Len(ts) THEN maxPayer
    ELSE IF ts[i].card # NoCard /\ getLogicValue(ts[i].card.rank, lv) > maxVal
        THEN maxPayerFrom(ts, i + 1, lv, getLogicValue(ts[i].card.rank, lv), ts[i].from)
    ELSE maxPayerFrom(ts, i + 1, lv, maxVal, maxPayer)

handleTribute(g, seatIndex, cards) ==
    LET i == findPending(g.tributeState.pendingTributes, seatIndex)
        tribute == g.tributeState.pendingTributes[i]
        largest == getLargestCard(g.hands[seatIndex], g.level)
        valPlay == getLogicValue(cards[1].rank, g.level)
        valMax == getLogicValue(largest.rank, g.level)
        g1 == [moveCard(g, seatIndex, tribute.to, cards[1])
                  EXCEPT !.tributeState.pendingTributes[i].card = cards[1],
                         !.tributeCards[seatIndex] = cards[1],
                         !.ev = mkEv("tribute", "socket", seatIndex, "ok", cards, NoHand)]
        ts == g1.tributeState.pendingTributes
        allDone == \A k \in 1..Len(ts) : ts[k].card # NoCard
    IN  IF g.currentPhase # "Tribute" THEN g
        ELSE IF Len(cards) # 1 THEN g
        ELSE IF i = 0 THEN g
        ELSE IF valPlay < valMax
        THEN [g EXCEPT !.ev = mkEv("tribute", "socket", seatIndex,
                                   "Must pay the largest card", <<>>, NoHand)]
        ELSE IF allDone
        THEN broadcastGameState(
               [g1 EXCEPT !.tributeState.nextStartPlayer = << maxPayerFrom(ts, 1, g.level, -1, -1) >>,
                          !.currentPhase = "ReturnTribute",
                          !.tributeState.pendingReturns = toReturns(ts),
                          !.tributeState.pendingTributes = <<>>])
        ELSE broadcastGameState(g1)

handleReturnTribute(g, seatIndex, cards) ==
    LET i == findPending(g.tributeState.pendingReturns, seatIndex)
        ret == g.tributeState.pendingReturns[i]
        g1 == [moveCard(g, seatIndex, ret.to, cards[1])
                  EXCEPT !.tributeState.pendingReturns[i].card = cards[1],
                         !.ev = mkEv("returnTribute", "socket", seatIndex, "ok", cards, NoHand)]
    IN  IF g.currentPhase # "ReturnTribute" THEN g
        ELSE IF Len(cards) # 1 THEN g
        ELSE IF i = 0 THEN g
        ELSE broadcastGameState(checkReturnDone(g1))

\* afterPlay as it would be without the check for a third finisher
afterPlayNoThird(g, seatIndex) ==
    IF Len(g.hands[seatIndex]) = 0
    THEN LET w == Append(g.winners, seatIndex)
             losers == SelectSeqBy(<<0, 1, 2, 3>>, Seats \ Range(w))
             g1 == [g EXCEPT !.winners = w]
         IN  IF Len(w) = 2 /\ (w[1] % 2) = (w[2] % 2)
             THEN endGame([g1 EXCEPT !.winners = w \o losers])
             ELSE broadcastGameState(advanceTurn(g1))
    ELSE broadcastGameState(advanceTurn(g))

\* the bookkeeping of handlePlayHand after the cards have left the hand
afterPlay(g, seatIndex) ==
    IF Len(g.hands[seatIndex]) = 0
    THEN LET w == Append(g.winners, seatIndex)
             losers == SelectSeqBy(<<0, 1, 2, 3>>, Seats \ Range(w))
             g1 == [g EXCEPT !.winners = w]
         IN  IF Len(w) = 2 /\ (w[1] % 2) = (w[2] % 2)
             THEN endGame([g1 EXCEPT !.winners = w \o losers])
             ELSE IF Len(w) = 3
             THEN endGame([g1 EXCEPT !.winners = Append(w, losers[1])])
             ELSE broadcastGameState(advanceTurn(g1))
    ELSE broadcastGameState(advanceTurn(g))

\* validCards as it would be if the hand were not consulted
validCardsUnchecked(cards, playerHand) == TRUE

\* every played card is found, by id, in the player's hand
validCards(cards, playerHand) == \A i \in 1..Len(cards) : cards[i].id \in ids(playerHand)

\* providedHandType is <<>> for undefined, else << hand >>
handlePlayHand(g, via, seatIndex, cards, providedHandType) ==
    LET inferredHand == getHandType(cards, g.level)
        hand == IF providedHandType # <<>> THEN providedHandType[1] ELSE inferredHand
        playerHand == g.hands[seatIndex]
        newHand == withoutIds(playerHand, ids(cards))
        err(msg) == [g EXCEPT !.ev = mkEv("playHand", via, seatIndex, msg, <<>>, NoHand)]
        g1 == [g EXCEPT !.hands[seatIndex] = newHand,
                        !.played = [id \in DOMAIN @ |->
                                       @[id] + Len(onlyIds(playerHand, ids(cards) \cap {id}))],
                        !.lastHand = [playerIndex |-> seatIndex, hand |-> hand],
                        !.roundActions = [NoActions EXCEPT ![seatIndex] = "play"],
                        !.ev = mkEv("playHand", via, seatIndex, "ok", cards, hand)]
    IN  IF g.currentPhase # "Playing" THEN g
        ELSE IF g.currentTurn # seatIndex THEN g
        ELSE IF inferredHand = NoHand THEN err("Invalid hand")
        ELSE IF /\ g.lastHand # NoLast
                /\ g.lastHand.playerIndex # seatIndex
                /\ compareHands(hand, g.lastHand.hand) <= 0
        THEN err("Hand not big enough")
        ELSE IF ~validCards(cards, playerHand) THEN err("You do not have these cards")
        ELSE afterPlay(g1, seatIndex)

\* handlePass as it would be without the check of the free turn
handlePassOnFreeTurn(g, via, seatIndex) ==
    IF g.currentPhase # "Playing" THEN g
    ELSE IF g.currentTurn # seatIndex THEN g
    ELSE broadcastGameState(advanceTurn(
           [g EXCEPT !.roundActions[seatIndex] = "pass",
                     !.ev = mkEv("pass", via, seatIndex, "ok", <<>>, NoHand)]))

\* handlePass as it would be without the check of the seat to act
handlePassAnySeat(g, via, seatIndex) ==
    IF g.currentPhase # "Playing" THEN g
    ELSE IF g.lastHand = NoLast \/ g.lastHand.playerIndex = seatIndex
    THEN [g EXCEPT !.ev = mkEv("pass", via, seatIndex, "Cannot pass on free turn", <<>>, NoHand)]
    ELSE broadcastGameState(advanceTurn(
           [g EXCEPT !.roundActions[seatIndex] = "pass",
                     !.ev = mkEv("pass", via, seatIndex, "ok", <<>>, NoHand)]))

handlePass(g, via, seatIndex) ==
    IF g.currentPhase # "Playing" THEN g
    ELSE IF g.currentTurn # seatIndex THEN g
    ELSE IF g.lastHand = NoLast \/ g.lastHand.playerIndex = seatIndex
    THEN [g EXCEPT !.ev = mkEv("pass", via, seatIndex, "Cannot pass on free turn", <<>>, NoHand)]
    ELSE broadcastGameState(advanceTurn(
           [g EXCEPT !.roundActions[seatIndex] = "pass",
                     !.ev = mkEv("pass", via, seatIndex, "ok", <<>>, NoHand)]))

\* -------------------------------------------------------- shared/bot.ts
NoMove == <<>>

Reverse(s) == [i \in 1..Len(s) |-> s[Len(s) + 1 - i]]

\* number of leading cards whose logic value is v
RECURSIVE prefixLen(_, _, _)
prefixLen(cards, v, lv) ==
    IF cards = <<>> \/ getLogicValue(Head(cards).rank, lv) # v THEN 0
    ELSE 1 + prefixLen(Tail(cards), v, lv)

\* the maximal runs of equal logic value, as the grouping loops build them
RECURSIVE runsOf(_, _)
runsOf(cards, lv) ==
    IF cards = <<>> THEN <<>>
    ELSE LET n == prefixLen(cards, getLogicValue(Head(cards).rank, lv), lv)
         IN  << SubSeq(cards, 1, n) >> \o runsOf(SubSeq(cards, n + 1, Len(cards)), lv)

RECURSIVE slicedRuns(_, _)
slicedRuns(runs, size) ==
    IF runs = <<>> THEN <<>>
    ELSE (IF Len(Head(runs)) >= size THEN << SubSeq(Head(runs), 1, size) >> ELSE <<>>)
         \o slicedRuns(Tail(runs), size)

\* smallest first
getGroups(cards, lv, size) == Reverse(slicedRuns(runsOf(cards, lv), size))

findPairExcluding(cards, lv, exclude) ==
    LET available == withoutIds(cards, ids(exclude))
        pairs == getGroups(available, lv, 2)
    IN  IF Len(pairs) > 0 THEN pairs[1] ELSE NoMove

isConsecutive(values) ==
    LET RECURSIVE sortInts(_)
        sortInts(v) == IF v = <<>> THEN <<>>
                       ELSE insertInt(v[Len(v)], sortInts(SubSeq(v, 1, Len(v) - 1)))
        sorted == sortInts(values)
        n == Len(sorted)
    IN  IF n < 2 THEN FALSE
        ELSE IF /\ sorted[n] = 14 /\ sorted[1] = 2 /\ n = 5
                /\ sorted[2] = 3 /\ sorted[3] = 4 /\ sorted[4] = 5
        THEN TRUE
        ELSE \A i \in 1..(n - 1) : sorted[i + 1] = sorted[i] + 1

\* first group, in order, whose logic value exceeds v
firstAbove(groups, lv, v) ==
    LET hits == {i \in 1..Len(groups) : getLogicValue(groups[i][1].rank, lv) > v}
    IN  IF hits = {} THEN NoMove ELSE groups[SetMin(hits)]

findBeat(cards, lv, target) ==
    LET singles == {i \in 1..Len(cards) : getLogicValue(cards[i].rank, lv) > target.value}
        trips == getGroups(cards, lv, 3)
        full == {i \in 1..Len(trips) :
                    /\ getLogicValue(trips[i][1].rank, lv) > target.value
                    /\ findPairExcluding(cards, lv, trips[i]) # NoMove}
    IN  IF target.type = "Single" /\ singles # {} THEN << cards[SetMax(singles)] >>
        ELSE IF target.type = "Pair" /\ firstAbove(getGroups(cards, lv, 2), lv, target.value) # NoMove
        THEN firstAbove(getGroups(cards, lv, 2), lv, target.value)
        ELSE IF target.type = "Trips" /\ firstAbove(trips, lv, target.value) # NoMove
        THEN firstAbove(trips, lv, target.value)
        ELSE IF target.type = "TripsWithPair" /\ full # {}
        THEN trips[SetMin(full)] \o findPairExcluding(cards, lv, trips[SetMin(full)])
        ELSE NoMove

\* suitCards.sort((a,b) => a.rank - b.rank), stable
RECURSIVE sortByRank(_)
sortByRank(cards) ==
    LET RECURSIVE ins(_, _)
        ins(c, s) == IF s = <<>> THEN <<c>>
                     ELSE IF c.rank < Head(s).rank THEN <<c>> \o s
                     ELSE <<Head(s)>> \o ins(c, Tail(s))
    IN  IF cards = <<>> THEN <<>>
        ELSE ins(cards[Len(cards)], sortByRank(SubSeq(cards, 1, Len(cards) - 1)))

\* the straight flushes findBomb collects for one suit, windows i..
RECURSIVE sfWindows(_, _)
sfWindows(suitCards, i) ==
    IF i + 4 > Len(suitCards) THEN <<>>
    ELSE LET window == SubSeq(suitCards, i, i + 4)
             ranks == [k \in 1..5 |-> window[k].rank]
         IN  (IF isConsecutive(ranks) THEN << [cards |-> window, value |-> ranks[5]] >> ELSE <<>>)
             \o sfWindows(suitCards, i + 1)

\* sfs.sort((a,b) => a.value - b.value), stable
RECURSIVE sortByValue(_)
sortByValue(sfs) ==
    LET RECURSIVE ins(_, _)
        ins(c, s) == IF s = <<>> THEN <<c>>
                     ELSE IF c.value < Head(s).value THEN <<c>> \o s
                     ELSE <<Head(s)>> \o ins(c, Tail(s))
    IN  IF sfs = <<>> THEN <<>>
        ELSE ins(sfs[Len(sfs)], sortByValue(SubSeq(sfs, 1, Len(sfs) - 1)))

findBomb(cards, lv, target) ==
    LET sj == SelectSeqBy(cards, {c \in Range(cards) : c.rank = SmallJoker})
        bj == SelectSeqBy(cards, {c \in Range(cards) : c.rank = BigJoker})
        kings == IF Len(sj) = 2 /\ Len(bj) = 2 THEN sj \o bj ELSE NoMove
        ofSuit(su) == sortByRank(SelectSeqBy(cards,
                          {c \in Range(cards) : c.suit = su /\ ~c.isWild /\ c.rank <= Ace}))
        sfs == sortByValue(sfWindows(ofSuit(0), 1) \o sfWindows(ofSuit(1), 1)
                           \o sfWindows(ofSuit(2), 1) \o sfWindows(ofSuit(3), 1))
        groups == getGroups(cards, lv, 4)
        bombs == [i \in 1..Len(groups) |->
                    [cards |-> groups[i], value |-> getLogicValue(groups[i][1].rank, lv)]]
        targetIsBomb == target.type = "Bomb"
        targetIsSF == target.type = "StraightFlush"
        targetIsKings == target.type = "FourKings"
        biggerSF == {i \in 1..Len(sfs) : sfs[i].value > target.value}
        bigBomb == {i \in 1..Len(bombs) : Len(bombs[i].cards) >= 6}
        \* target.bombCount || 4
        tCount == IF target.bombCount = 0 THEN 4 ELSE target.bombCount
        beats == {i \in 1..Len(bombs) :
                    \/ Len(bombs[i].cards) > tCount
                    \/ Len(bombs[i].cards) = tCount /\ bombs[i].value > target.value}
    IN  IF ~targetIsBomb /\ ~targetIsSF /\ ~targetIsKings
        THEN (IF Len(bombs) > 0 THEN bombs[1].cards
              ELSE IF Len(sfs) > 0 THEN sfs[1].cards
              ELSE kings)
        ELSE IF targetIsKings THEN NoMove
        ELSE IF targetIsSF
        THEN (IF biggerSF # {} THEN sfs[SetMin(biggerSF)].cards
              ELSE IF kings # NoMove THEN kings
              ELSE IF bigBomb # {} THEN bombs[SetMin(bigBomb)].cards
              ELSE NoMove)
        ELSE IF beats # {} THEN bombs[SetMin(beats)].cards
        ELSE IF tCount <= 5 /\ Len(sfs) > 0 THEN sfs[1].cards
        ELSE kings

\* new Bot(hand, lv).decideMove(target); target is NoHand for null
decideMove(hand, lv, target) ==
    LET cards == sortCards(hand, lv)
        trips == getGroups(cards, lv, 3)
        pairs == getGroups(cards, lv, 2)
        pair == findPairExcluding(cards, lv, trips[1])
        candidate == findBeat(cards, lv, target)
    IN  IF Len(cards) = 0 THEN NoMove
        ELSE IF target = NoHand
        THEN (IF Len(trips) > 0 THEN (IF pair # NoMove THEN trips[1] \o pair ELSE trips[1])
              ELSE IF Len(pairs) > 0 THEN pairs[1]
              ELSE << cards[Len(cards)] >>)
        ELSE IF candidate # NoMove THEN candidate
        ELSE findBomb(cards, lv, target)

\* handleBotTurn as it would be without the check of the phase
handleBotTurnAnyPhase(g, seatIndex) ==
    LET hand == g.hands[seatIndex]
        move == decideMove(hand, g.level,
                           IF g.lastHand # NoLast THEN g.lastHand.hand ELSE NoHand)
        abort == [g EXCEPT !.ev = mkEv("botTurn", "timer", seatIndex, "abort", <<>>, NoHand)]
    IN  IF g.currentTurn # seatIndex THEN abort
        ELSE IF Len(hand) = 0
        THEN broadcastGameState(advanceTurn(
               [g EXCEPT !.ev = mkEv("botTurn", "timer", seatIndex, "skip", <<>>, NoHand)]))
        ELSE IF move # NoMove THEN handlePlayHand(g, "timer", seatIndex, move, <<>>)
        ELSE handlePass(g, "timer", seatIndex)

\* the timer callback () => handleBotTurn(botSeat)
handleBotTurn(g, seatIndex) ==
    LET hand == g.hands[seatIndex]
        move == decideMove(hand, g.level,
                           IF g.lastHand # NoLast THEN g.lastHand.hand ELSE NoHand)
        abort == [g EXCEPT !.ev = mkEv("botTurn", "timer", seatIndex, "abort", <<>>, NoHand)]
    IN  IF g.currentPhase # "Playing" THEN abort
        ELSE IF g.currentTurn # seatIndex THEN abort
        ELSE IF Len(hand) = 0
        THEN broadcastGameState(advanceTurn(
               [g EXCEPT !.ev = mkEv("botTurn", "timer", seatIndex, "skip", <<>>, NoHand)]))
        ELSE IF move # NoMove THEN handlePlayHand(g, "timer", seatIndex, move, <<>>)
        ELSE handlePass(g, "timer", seatIndex)

\* ------------------------------------------------- inputs of the model
\* the deals started: which seats hold bots (seat 0 is the host) and the
\* finishing order of the previous deal, <<>> for the first deal of a match
Scenario(bots, prev) == [bots |-> bots, prev |-> prev]
Scenarios ==
    { Scenario({}, <<>>),
      Scenario({1, 2, 3}, <<>>),
      Scenario({1, 2, 3}, <<0, 2, 1, 3>>),
      Scenario({1, 2, 3}, <<0, 1, 2, 3>>),
      Scenario({1, 3}, <<1, 0, 3, 2>>),
      Scenario({1, 2}, <<0, 1, 2, 3>>),
      Scenario({1, 3}, <<1, 3, 0, 2>>),
      Scenario({1, 2, 3}, <<0, 1, 3, 2>>) }

\* the partner in third place earns no more than the partner in last place
levelIncreaseNoThird(w) == IF isSameTeam(w[1], w[2]) THEN 3 ELSE 1

\* the level-up step of the previous deal (Match.calculateLevelUp)
levelIncrease(w) ==
    IF isSameTeam(w[1], w[2]) THEN 3 ELSE IF isSameTeam(w[1], w[3]) THEN 2 ELSE 1

\* a card a client makes up, and a hand type a client claims
ForgedCards == << [id |-> "forged", suit |-> Joker, rank |-> BigJoker, isWild |-> FALSE] >>
ForgedHands == { [type |-> "FourKings", value |-> 999, bombCount |-> 0, len |-> 4] }
ProvidedChoices == { <<>> } \cup { << h >> : h \in ForgedHands }

CardIds == ids(createDeck) \cup ids(ForgedCards)

\* the cards seat s may name in a message: its own and a forged one
payloadCards(s) == hands[s] \o ForgedCards

\* a payer may also offer the head card of the next non-empty hand clockwise
foreignCards(s) ==
    LET others == {k \in 1..3 : Len(hands[(s + k) % 4]) > 0}
    IN  IF others = {} THEN <<>> ELSE << hands[(s + SetMin(others)) % 4][1] >>

\* card lists of length 0..n over cs, one per multiset
payloads(cs, n) ==
    UNION { { [i \in 1..k |-> cs[f[i]]] :
                f \in {f \in [1..k -> 1..Len(cs)] : \A i, j \in 1..k : i < j => f[i] <= f[j]} } :
            k \in 0..n }

\* ------------------------------------------------------ server/match.ts
NoTeam == -1
NoGame == [currentPhase |-> "none"]

\* a Game that is not given the team levels of the Match
newGameAtLevelTwo(pl, prev, tl, at) ==
    [players |-> pl, prevWinners |-> prev, currentPhase |-> "Waiting", level |-> 2,
     hands |-> [s \in Seats |-> <<>>], currentTurn |-> 0, lastHand |-> NoLast,
     roundActions |-> NoActions, winners |-> <<>>, tributeState |-> EmptyTribute,
     teamLevels |-> [t \in {0, 1} |-> 2], activeTeam |-> at,
     botTimers |-> [s \in Seats |-> 0],
     gameEndCalls |-> 0, played |-> [id \in CardIds |-> 0],
     tributeCards |-> [s \in Seats |-> NoCard], dealt |-> [s \in Seats |-> <<>>],
     tributeEdges |-> {}, ev |-> mkEv("new", "match", 0, "ok", <<>>, NoHand)]

\* a Game as its constructor leaves it, with what startNextGame then assigns
newGame(pl, prev, tl, at) ==
    [players |-> pl, prevWinners |-> prev, currentPhase |-> "Waiting", level |-> 2,
     hands |-> [s \in Seats |-> <<>>], currentTurn |-> 0, lastHand |-> NoLast,
     roundActions |-> NoActions, winners |-> <<>>, tributeState |-> EmptyTribute,
     teamLevels |-> tl, activeTeam |-> at, botTimers |-> [s \in Seats |-> 0],
     gameEndCalls |-> 0, played |-> [id \in CardIds |-> 0],
     tributeCards |-> [s \in Seats |-> NoCard], dealt |-> [s \in Seats |-> <<>>],
     tributeEdges |-> {}, ev |-> mkEv("new", "match", 0, "ok", <<>>, NoHand)]

\* a Match as its constructor leaves it; game is the Game object it created
\* last, which currentGame refers to unless it is null; finished is the
\* record of its last two finished deals (winning team, that team's level when
\* the deal began) and mev the last thing it did
newMatch(pl) ==
    [players |-> pl, currentGame |-> FALSE, game |-> NoGame,
     teamLevels |-> [t \in {0, 1} |-> 2], activeTeam |-> 0,
     consecutiveWins |-> [t \in {0, 1} |-> 0], matchWinner |-> NoTeam,
     lastWinners |-> <<>>, graceTimers |-> 0, retired |-> NoGame,
     finished |-> <<>>, forced |-> FALSE, mev |-> "new"]

\* Game.destroy: the engine lets go of its timeouts and listeners
destroy(g) == [g EXCEPT !.botTimers = [s \in Seats |-> 0]]

calculateLevelUp(w) ==
    [winningTeam |-> w[1] % 2, levelIncrease |-> levelIncrease(w)]

\* the new engine is not told the finishing order of the deal before
startNextGameNoPrev(m, seed) ==
    LET g == newGame([s \in Seats |-> [isBot |-> m.players[s].isBot]],
                     <<>>, m.teamLevels, m.activeTeam)
    IN  IF m.matchWinner # NoTeam THEN [m EXCEPT !.mev = "already won"]
        ELSE [m EXCEPT !.retired = [currentPhase |-> "Score"],
                       !.currentGame = TRUE,
                       !.game = start([g EXCEPT !.ev = mkEv("start", "match", 0, "ok", <<>>, NoHand)], seed),
                       !.mev = "started"]

startNextGame(m, seed) ==
    IF m.matchWinner # NoTeam THEN [m EXCEPT !.mev = "already won"]
    ELSE LET old == IF m.currentGame THEN destroy(m.game) ELSE NoGame
             g == newGame([s \in Seats |-> [isBot |-> m.players[s].isBot]],
                          m.lastWinners, m.teamLevels, m.activeTeam)
         IN  [m EXCEPT !.retired = [currentPhase |-> old.currentPhase],
                       !.currentGame = TRUE,
                       !.game = start([g EXCEPT !.ev = mkEv("start", "match", 0, "ok", <<>>, NoHand)], seed),
                       !.mev = "started"]

startMatch(m, seed) ==
    startNextGame([m EXCEPT !.teamLevels = [t \in {0, 1} |-> 2], !.activeTeam = 0,
                            !.consecutiveWins = [t \in {0, 1} |-> 0],
                            !.matchWinner = NoTeam], seed)

\* handleGameEnd as it would be if a win at level 14 left the counter of the
\* other team as it is
handleGameEndKeepsOther(m, w) ==
    IF Len(w) # 4 THEN m
    ELSE
    LET up == calculateLevelUp(w)
        winningTeam == up.winningTeam
        otherTeam == 1 - winningTeam
        oldLevel == m.teamLevels[winningTeam]
        newLevel == IF oldLevel + up.levelIncrease > 14 THEN 14 ELSE oldLevel + up.levelIncrease
        m1 == [m EXCEPT !.teamLevels[winningTeam] = newLevel,
                        !.activeTeam = winningTeam,
                        !.finished = IF Len(@) < 2 THEN Append(@, [team |-> winningTeam, level |-> oldLevel])
                                     ELSE << @[2], [team |-> winningTeam, level |-> oldLevel] >>]
        counted == [m1 EXCEPT !.consecutiveWins[winningTeam] = @ + 1]
        m2 == IF newLevel = 14 THEN counted
              ELSE [m1 EXCEPT !.consecutiveWins = [t \in {0, 1} |-> 0]]
    IN  IF newLevel = 14 /\ counted.consecutiveWins[winningTeam] >= 2
        THEN [counted EXCEPT !.matchWinner = winningTeam, !.mev = "matchOver"]
        ELSE [m2 EXCEPT !.lastWinners = w, !.graceTimers = @ + 1, !.mev = "gameEnd"]

handleGameEnd(m, w) ==
    IF Len(w) # 4 THEN m
    ELSE
    LET up == calculateLevelUp(w)
        winningTeam == up.winningTeam
        otherTeam == 1 - winningTeam
        oldLevel == m.teamLevels[winningTeam]
        newLevel == IF oldLevel + up.levelIncrease > 14 THEN 14 ELSE oldLevel + up.levelIncrease
        m1 == [m EXCEPT !.teamLevels[winningTeam] = newLevel,
                        !.activeTeam = winningTeam,
                        !.finished = IF Len(@) < 2 THEN Append(@, [team |-> winningTeam, level |-> oldLevel])
                                     ELSE << @[2], [team |-> winningTeam, level |-> oldLevel] >>]
        counted == [m1 EXCEPT !.consecutiveWins[winningTeam] = @ + 1,
                              !.consecutiveWins[otherTeam] = 0]
        m2 == IF newLevel = 14 THEN counted
              ELSE [m1 EXCEPT !.consecutiveWins = [t \in {0, 1} |-> 0]]
    IN  IF newLevel = 14 /\ counted.consecutiveWins[winningTeam] >= 2
        THEN [counted EXCEPT !.matchWinner = winningTeam, !.mev = "matchOver"]
        ELSE [m2 EXCEPT !.lastWinners = w, !.graceTimers = @ + 1, !.mev = "gameEnd"]

forceEndMatch(m) ==
    [m EXCEPT !.currentGame = FALSE, !.matchWinner = NoTeam,
              !.consecutiveWins = [t \in {0, 1} |-> 0], !.mev = "forceEnd"]

\* the deal of the engine is played to its end in the finishing order w: the
\* seats that finished hold no card, endGame runs and calls onGameEnd
playedOut(g, w) ==
    LET out == IF isSameTeam(w[1], w[2]) THEN {w[1], w[2]} ELSE {w[1], w[2], w[3]}
    IN  endGame([g EXCEPT !.winners = w, !.currentPhase = "Playing",
                          !.tributeState = EmptyTribute,
                          !.hands = [s \in Seats |-> IF s \in out THEN <<>> ELSE @[s]]])

gameEnds(m, w) == handleGameEnd([m EXCEPT !.game = playedOut(@, w)], w)


\* ----------------------------------------------- the Room (RoomManager)
NoPlayer == [id |-> 0, name |-> "", seatIndex |-> -1, isReady |-> FALSE, isBot |-> FALSE,
             isDisconnected |-> FALSE]

\* a Room as its constructor leaves it: four null seats and no match. match
\* is an index into matches, 0 for null; shared is the Match that holds the
\* very array the Room holds as players (0: none)
newRoom == [players |-> [s \in Seats |-> NoPlayer], match |-> 0, shared |-> 0]

\* the Room with the Match objects it created, and what a handler emitted
\* besides the room state: "error" is the error event sent to the
\* sender alone, the other values are events sent to the whole room
RM(r, ms) == [room |-> r, matches |-> ms, emitted |-> "none"]
Emit(P, e) == [P EXCEPT !.emitted = e]

\* what a Game reads of a seat of the players array: {...p} of a null seat
\* is an object without isBot
asGamePlayers(pl) == [s \in Seats |-> [isBot |-> pl[s].isBot]]

\* Match k as it stands, its players being the Room's array while shared
matchOf(P, k) ==
    IF P.room.shared = k THEN [P.matches[k] EXCEPT !.players = asGamePlayers(P.room.players)]
    ELSE P.matches[k]

\* players.findIndex(p => p && p.id === socket.id), -1 when there is none
findSocket(r, socket) ==
    LET hits == {i \in Seats : r.players[i] # NoPlayer /\ r.players[i].id = socket}
    IN  IF hits = {} THEN -1 ELSE SetMin(hits)

getSeat(r, socket) ==
    IF findSocket(r, socket) = -1 THEN -1 ELSE r.players[findSocket(r, socket)].seatIndex

\* a seat is taken back by name alone, whether its client is gone or not
addPlayerByName(P, socket, name) ==
    LET r == P.room
        existing == {i \in Seats : r.players[i] # NoPlayer /\ r.players[i].name = name}
        empty == {i \in Seats : r.players[i] = NoPlayer}
        seatIndex == SetMin(empty)
    IN  IF existing # {}
        THEN Emit(RM([r EXCEPT !.players[SetMin(existing)].isDisconnected = FALSE,
                               !.players[SetMin(existing)].id = socket], P.matches),
                  "reconnected")
        ELSE IF empty = {}
        THEN Emit(P, "error")
        ELSE RM([r EXCEPT !.players[seatIndex] =
                              [id |-> socket, name |-> name, seatIndex |-> seatIndex,
                               isReady |-> FALSE, isBot |-> FALSE, isDisconnected |-> FALSE]],
                P.matches)

addPlayer(P, socket, name) ==
    LET r == P.room
        existing == {i \in Seats : /\ r.players[i] # NoPlayer
                                   /\ r.players[i].name = name
                                   /\ r.players[i].isDisconnected}
        empty == {i \in Seats : r.players[i] = NoPlayer}
        seatIndex == SetMin(empty)
    IN  IF existing # {}
        THEN Emit(RM([r EXCEPT !.players[SetMin(existing)].isDisconnected = FALSE,
                               !.players[SetMin(existing)].id = socket], P.matches),
                  "reconnected")
        ELSE IF empty = {}
        THEN Emit(P, "error")
        ELSE RM([r EXCEPT !.players[seatIndex] =
                              [id |-> socket, name |-> name, seatIndex |-> seatIndex,
                               isReady |-> FALSE, isBot |-> FALSE, isDisconnected |-> FALSE]],
                P.matches)

\* any seat may end the match
handleForceEndAnySeat(P, socket) ==
    LET r == P.room
    IN  IF r.match = 0 THEN Emit(P, "error")
        ELSE Emit(RM([r EXCEPT !.match = 0,
                               !.players = [s \in Seats |->
                                               IF @[s] # NoPlayer THEN [@[s] EXCEPT !.isReady = FALSE]
                                               ELSE @[s]]],
                     [P.matches EXCEPT ![r.match] = [forceEndMatch(@) EXCEPT !.forced = TRUE]]),
                  "gameTerminated")

handleForceEnd(P, socket) ==
    LET r == P.room
    IN  IF getSeat(r, socket) # 0 THEN Emit(P, "error")
        ELSE IF r.match = 0 THEN Emit(P, "error")
        ELSE Emit(RM([r EXCEPT !.match = 0,
                               !.players = [s \in Seats |->
                                               IF @[s] # NoPlayer THEN [@[s] EXCEPT !.isReady = FALSE]
                                               ELSE @[s]]],
                     [P.matches EXCEPT ![r.match] = [forceEndMatch(@) EXCEPT !.forced = TRUE]]),
                  "gameTerminated")

\* the target seat is taken whoever sits there
switchSeatOntoOccupied(P, socket, targetSeat) ==
    LET r == P.room
        currentIdx == findSocket(r, socket)
    IN  IF r.match # 0 /\ P.matches[r.match].matchWinner = NoTeam THEN P
        ELSE IF targetSeat < 0 \/ targetSeat > 3 THEN P
        ELSE IF currentIdx = -1 THEN P
        ELSE RM([r EXCEPT !.players[targetSeat] = [r.players[currentIdx] EXCEPT !.seatIndex = targetSeat],
                          !.players[currentIdx] = NoPlayer], P.matches)

switchSeat(P, socket, targetSeat) ==
    LET r == P.room
        currentIdx == findSocket(r, socket)
    IN  IF r.match # 0 /\ P.matches[r.match].matchWinner = NoTeam THEN P
        ELSE IF targetSeat < 0 \/ targetSeat > 3 THEN P
        ELSE IF currentIdx = -1 THEN P
        ELSE IF r.players[targetSeat] # NoPlayer THEN P
        ELSE RM([r EXCEPT !.players[targetSeat] = [r.players[currentIdx] EXCEPT !.seatIndex = targetSeat],
                          !.players[currentIdx] = NoPlayer], P.matches)

handleDisconnect(P, socket) ==
    LET r == P.room
        index == findSocket(r, socket)
    IN  IF index = -1 THEN P
        ELSE IF r.match # 0 /\ P.matches[r.match].currentGame
        THEN Emit(RM([r EXCEPT !.players[index].isDisconnected = TRUE,
                               !.players[index].isReady = FALSE], P.matches), "waiting")
        ELSE Emit(RM([r EXCEPT !.players[index] = NoPlayer], P.matches), "left")

BotNames == << "Bot 0", "Bot 1", "Bot 2", "Bot 3" >>

\* the Match that shared the Room's array keeps it as it is now; the Room
\* goes on with a new array in which bots fill the empty seats, and hands
\* that array to a new Match
startGame(P, seed) ==
    LET r == P.room
        gamePlayers == [index \in Seats |->
                           IF r.players[index] # NoPlayer THEN r.players[index]
                           ELSE [id |-> -1 - index, name |-> BotNames[index + 1], seatIndex |-> index,
                                 isReady |-> TRUE, isBot |-> TRUE, isDisconnected |-> FALSE]]
        kept == IF r.shared = 0 THEN P.matches
                ELSE [P.matches EXCEPT ![r.shared] = matchOf(P, r.shared)]
        k == Len(P.matches) + 1
    IN  Emit(RM([r EXCEPT !.players = gamePlayers, !.match = k, !.shared = k],
                Append(kept, startMatch(newMatch(asGamePlayers(gamePlayers)), seed))),
             "matchStarted")

tryAutoStart(P, seed) ==
    LET readyCount == Cardinality({s \in Seats : P.room.players[s] # NoPlayer /\ P.room.players[s].isReady})
    IN  IF readyCount = 4 /\ P.room.match = 0 THEN startGame(P, seed) ELSE P

setReady(P, seatIndex, seed) ==
    IF seatIndex \in Seats /\ P.room.players[seatIndex] # NoPlayer
    THEN tryAutoStart(RM([P.room EXCEPT !.players[seatIndex].isReady = TRUE], P.matches), seed)
    ELSE P

\* any seat may start a match
forceStartAnySeat(P, seatIndex, seed) ==
    IF P.room.match # 0 /\ P.matches[P.room.match].matchWinner = NoTeam THEN P
    ELSE startGame(P, seed)

forceStart(P, seatIndex, seed) ==
    IF seatIndex # 0 THEN P
    ELSE IF P.room.match # 0 /\ P.matches[P.room.match].matchWinner = NoTeam THEN P
    ELSE startGame(P, seed)

\* ------------------------------------------------------------ the system
Init ==
    /\ \E sc \in Scenarios :
          /\ players = [s \in Seats |-> [isBot |-> s \in sc.bots]]
          /\ prevWinners = sc.prev
    /\ activeTeam = IF prevWinners = <<>> THEN 0 ELSE prevWinners[1] % 2
    /\ teamLevels = [t \in {0, 1} |->
                        IF prevWinners # <<>> /\ t = prevWinners[1] % 2
                        THEN 2 + levelIncrease(prevWinners) ELSE 2]
    /\ currentPhase = "Waiting"
    /\ level = 2
    /\ hands = [s \in Seats |-> <<>>]
    /\ currentTurn = 0
    /\ lastHand = NoLast
    /\ roundActions = NoActions
    /\ winners = <<>>
    /\ tributeState = EmptyTribute
    /\ botTimers = [s \in Seats |-> 0]
    /\ gameEndCalls = 0
    /\ played = [id \in CardIds |-> 0]
    /\ tributeCards = [s \in Seats |-> NoCard]
    /\ dealt = [s \in Seats |-> <<>>]
    /\ tributeEdges = {}
    /\ ev = mkEv("new", "match", 0, "ok", <<>>, NoHand)
    /\ room = newRoom
    /\ matches = <<>>
    /\ call = NoCall

\* the fields of g become the next state
Becomes(g) ==
    /\ currentPhase' = g.currentPhase
    /\ level' = g.level
    /\ hands' = g.hands
    /\ currentTurn' = g.currentTurn
    /\ lastHand' = g.lastHand
    /\ roundActions' = g.roundActions
    /\ winners' = g.winners
    /\ tributeState' = g.tributeState
    /\ teamLevels' = g.teamLevels
    /\ activeTeam' = g.activeTeam
    /\ botTimers' = g.botTimers
    /\ gameEndCalls' = g.gameEndCalls
    /\ played' = g.played
    /\ tributeCards' = g.tributeCards
    /\ dealt' = g.dealt
    /\ tributeEdges' = g.tributeEdges
    /\ ev' = g.ev
    /\ players' = g.players
    /\ prevWinners' = g.prevWinners
    /\ UNCHANGED << room, matches, call >>

\* Match.startNextGame / Room.startGame call start() right after construction
Start ==
    /\ currentPhase = "Waiting"
    /\ \E seed \in 1..NumShuffles :
          Becomes(start([G EXCEPT !.ev = mkEv("start", "match", 0, "ok", <<>>, NoHand)], seed))

\* a human seat's socket delivers playHand
PlayHand ==
    \E s \in Seats :
        /\ ~players[s].isBot
        /\ currentPhase # "Waiting"
        /\ \E cards \in payloads(payloadCards(s), MaxPlayLen), pht \in ProvidedChoices :
              Becomes(handlePlayHand(G, "socket", s, cards, pht))

Pass ==
    \E s \in Seats :
        /\ ~players[s].isBot
        /\ currentPhase # "Waiting"
        /\ Becomes(handlePass(G, "socket", s))

Tribute ==
    \E s \in Seats :
        /\ ~players[s].isBot
        /\ currentPhase # "Waiting"
        /\ \E cards \in payloads(payloadCards(s) \o foreignCards(s), 2) :
              Becomes(handleTribute(G, s, cards))

ReturnTribute ==
    \E s \in Seats :
        /\ ~players[s].isBot
        /\ currentPhase # "Waiting"
        /\ \E cards \in payloads(payloadCards(s), 2) : Becomes(handleReturnTribute(G, s, cards))

\* a pending bot-decision timer fires
BotTimer ==
    \E s \in Seats :
        /\ botTimers[s] > 0
        /\ Becomes(handleBotTurn([G EXCEPT !.botTimers[s] = @ - 1], s))

Next == Start \/ PlayHand \/ Pass \/ Tribute \/ ReturnTribute \/ BotTimer

Spec == Init /\ [][Next]_vars

\* ------------------------------------------------- the match controller
\* the finishing orders a deal may end in: a double win, a win with the
\* partner third and a win with the partner last, for either team
FinishingOrders ==
    { <<0, 2, 1, 3>>, <<0, 1, 2, 3>>, <<0, 1, 3, 2>>,
      <<1, 3, 0, 2>>, <<1, 0, 3, 2>>, <<1, 0, 2, 3>> }

\* the seats the Room filled with bots before it created the Match
MatchSeatings == { {1, 2, 3}, {1, 3} }

gameVars == << players, prevWinners, currentPhase, level, hands, currentTurn, lastHand,
               roundActions, winners, tributeState, teamLevels, activeTeam, botTimers,
               gameEndCalls, played, tributeCards, dealt, tributeEdges, ev >>

\* no Game is held in the deal variables
NoDeal ==
    /\ players = [s \in Seats |-> [isBot |-> FALSE]]
    /\ prevWinners = <<>>
    /\ activeTeam = 0
    /\ teamLevels = [t \in {0, 1} |-> 2]
    /\ currentPhase = "Waiting"
    /\ level = 2
    /\ hands = [s \in Seats |-> <<>>]
    /\ currentTurn = 0
    /\ lastHand = NoLast
    /\ roundActions = NoActions
    /\ winners = <<>>
    /\ tributeState = EmptyTribute
    /\ botTimers = [s \in Seats |-> 0]
    /\ gameEndCalls = 0
    /\ played = [id \in CardIds |-> 0]
    /\ tributeCards = [s \in Seats |-> NoCard]
    /\ dealt = [s \in Seats |-> <<>>]
    /\ tributeEdges = {}
    /\ ev = mkEv("new", "match", 0, "ok", <<>>, NoHand)

\* Room.startGame has constructed the Match and is about to call startMatch
MatchInit ==
    /\ NoDeal
    /\ call = NoCall
    /\ room = newRoom
    /\ \E bots \in MatchSeatings :
          matches = << newMatch([s \in Seats |-> [isBot |-> s \in bots]]) >>

StartMatch ==
    /\ matches[1].mev = "new"
    /\ \E seed \in 1..NumShuffles : matches' = << startMatch(matches[1], seed) >>
    /\ UNCHANGED << gameVars, room, call >>

\* the deal of the engine the Match created last comes to its end, in one
\* of the given finishing orders
GameEndsIn(orders) ==
    /\ matches[1].game.currentPhase \notin {"none", "Score"}
    /\ \E w \in orders : matches' = << gameEnds(matches[1], w) >>
    /\ UNCHANGED << gameVars, room, call >>

GameEnds == GameEndsIn(FinishingOrders)

\* the grace timer set by handleGameEnd fires
GraceTimer ==
    /\ matches[1].graceTimers > 0
    /\ \E seed \in 1..NumShuffles :
          matches' = << startNextGame([matches[1] EXCEPT !.graceTimers = @ - 1], seed) >>
    /\ UNCHANGED << gameVars, room, call >>

\* Room.handleForceEnd calls forceEndMatch, once, and lets go of the Match
ForceEndMatch ==
    /\ matches[1].mev \notin {"new"}
    /\ ~matches[1].forced
    /\ matches' = << [forceEndMatch(matches[1]) EXCEPT !.forced = TRUE] >>
    /\ UNCHANGED << gameVars, room, call >>

MatchNext == StartMatch \/ GameEnds \/ GraceTimer \/ ForceEndMatch

MatchSpec == MatchInit /\ [][MatchNext]_vars

\* the chain of deals of a match in which team 0 wins by double wins and
\* team 1 with its partner third
ChainOrders == { <<0, 2, 1, 3>>, <<1, 0, 3, 2>> }

ChainGameEnds == GameEndsIn(ChainOrders)

ChainNext == StartMatch \/ ChainGameEnds \/ GraceTimer \/ ForceEndMatch

\* timers fire: weak fairness of GraceTimer, WF_vars(GraceTimer), with
\* ENABLED <<GraceTimer>>_vars written as what it amounts to, a pending timer
GraceTimerFires == []<>(matches[1].graceTimers = 0) \/ []<><<GraceTimer>>_vars

ChainSpec == MatchInit /\ [][ChainNext]_vars /\ GraceTimerFires

\* ------------------------------------- a match with its deal played out
\* what a handler of the engine the Match created last leaves behind: the
\* engine as it is now, and onGameEnd, which the Match set to its
\* handleGameEnd, if endGame ran
afterEngine(m, g) ==
    IF g.gameEndCalls > m.game.gameEndCalls
    THEN handleGameEnd([m EXCEPT !.game = g], g.winners)
    ELSE [m EXCEPT !.game = g]

\* the listeners bindPlayerListeners put on the sockets of the human seats
EnginePlayHand ==
    \E s \in Seats :
        /\ matches[1].game.currentPhase # "none"
        /\ ~matches[1].players[s].isBot
        /\ \E cards \in payloads(matches[1].game.hands[s], MaxPlayLen) :
              matches' = << afterEngine(matches[1],
                              handlePlayHand(matches[1].game, "socket", s, cards, <<>>)) >>
        /\ UNCHANGED << gameVars, room, call >>

EnginePass ==
    \E s \in Seats :
        /\ matches[1].game.currentPhase # "none"
        /\ ~matches[1].players[s].isBot
        /\ matches' = << afterEngine(matches[1], handlePass(matches[1].game, "socket", s)) >>
        /\ UNCHANGED << gameVars, room, call >>

\* a timer set by broadcastGameState of that engine fires
EngineBotTimer ==
    \E s \in Seats :
        /\ matches[1].game.currentPhase # "none"
        /\ matches[1].game.botTimers[s] > 0
        /\ matches' = << afterEngine(matches[1],
                            handleBotTurn([matches[1].game EXCEPT !.botTimers[s] = @ - 1], s)) >>
        /\ UNCHANGED << gameVars, room, call >>

EngineNext == StartMatch \/ EnginePlayHand \/ EnginePass \/ EngineBotTimer \/ ForceEndMatch

EngineSpec == MatchInit /\ [][EngineNext]_vars

\* ------------------------------------------------------------ the rules
\* the Hands getHandType returns: of each type, with the lengths the type
\* has and some of its values; a Bomb of 4 to MaxBombCount cards
RuleValues == { 3, 14, 19 }
FlushValues == { 5, 14 }
PlainShapes ==
    { <<"Single", 1>>, <<"Pair", 2>>, <<"Trips", 3>>, <<"TripsWithPair", 5>>,
      <<"Straight", 5>>, <<"Tube", 6>>, <<"Plate", 6>> }
Classified ==
    { [type |-> sh[1], value |-> v, bombCount |-> 0, len |-> sh[2]] :
         sh \in PlainShapes, v \in RuleValues }
    \cup { [type |-> "Bomb", value |-> v, bombCount |-> n, len |-> n] :
             n \in 4..MaxBombCount, v \in RuleValues }
    \cup { [type |-> "StraightFlush", value |-> v, bombCount |-> 5, len |-> 5] :
             v \in FlushValues }
    \cup { [type |-> "FourKings", value |-> 999, bombCount |-> 0, len |-> 4] }

\* two Hands are about to be compared, each with the other
RulesInit ==
    /\ NoDeal
    /\ room = newRoom
    /\ matches = <<>>
    /\ \E handA \in Classified, handB \in Classified :
          call = [fn |-> "compareHands", args |-> << handA, handB >>, result |-> <<>>]

Compare ==
    /\ call.fn = "compareHands"
    /\ call.result = <<>>
    /\ call' = [call EXCEPT !.result = << compareHands(call.args[1], call.args[2]),
                                          compareHands(call.args[2], call.args[1]) >>]
    /\ UNCHANGED << gameVars, room, matches >>

RulesNext == Compare

RulesSpec == RulesInit /\ [][RulesNext]_vars

\* the cards the five-card hands given to the classifier are made of: a run
\* of spades from the Ace and the 2 up to the 7, the 2 of hearts, which is
\* the wild card at level 2, and a card of another suit
ClassifyCards ==
    << mkCard("0-14-0", Spades, Ace),
       mkCard("0-2-0", Spades, 2),
       mkCard("0-3-0", Spades, 3),
       mkCard("0-4-0", Spades, 4),
       mkCard("0-5-0", Spades, 5),
       mkCard("0-6-0", Spades, 6),
       mkCard("0-7-0", Spades, 7),
       mkCard("1-2-0", Hearts, 2),
       mkCard("2-5-0", Clubs, 5) >>
ClassifyLevels == { 2, 7 }

\* five of the cards are about to be classified at a level
ClassifyInit ==
    /\ NoDeal
    /\ room = newRoom
    /\ matches = <<>>
    /\ \E pick \in SUBSET (1..Len(ClassifyCards)), lv \in ClassifyLevels :
          /\ Cardinality(pick) = 5
          /\ call = [fn |-> "getHandType",
                     args |-> << updateCardProperties(
                                    SelectSeqBy(ClassifyCards, {ClassifyCards[i] : i \in pick}), lv),
                                 lv >>,
                     result |-> <<>>]

Classify ==
    /\ call.fn = "getHandType"
    /\ call.result = <<>>
    /\ call' = [call EXCEPT !.result = << getHandType(call.args[1], call.args[2]) >>]
    /\ UNCHANGED << gameVars, room, matches >>

ClassifyNext == Classify

ClassifySpec == ClassifyInit /\ [][ClassifyNext]_vars

\* ------------------------------------------------- a deal of four bots
\* The cards of createDeck() a deal of four bots is played with: twenty of
\* the 108, five per seat, so that the five-card plays of the bot occur.
BotDeck ==
    << mkCard("0-3-1", Spades, 3),
       mkCard("2-4-0", Clubs, 4),
       mkCard("3-4-0", Diamonds, 4),
       mkCard("3-5-0", Diamonds, 5),
       mkCard("0-6-0", Spades, 6),
       mkCard("1-7-0", Hearts, 7),
       mkCard("2-8-0", Clubs, 8),
       mkCard("joker-small-0", Joker, SmallJoker),
       mkCard("3-9-0", Diamonds, 9),
       mkCard("0-10-0", Spades, 10),
       mkCard("1-11-0", Hearts, 11),
       mkCard("joker-small-1", Joker, SmallJoker),
       mkCard("1-2-0", Hearts, 2),
       mkCard("3-13-0", Diamonds, 13),
       mkCard("0-14-0", Spades, Ace),
       mkCard("joker-big-1", Joker, BigJoker),
       mkCard("2-5-0", Clubs, 5),
       mkCard("0-3-0", Spades, 3),
       mkCard("joker-big-0", Joker, BigJoker),
       mkCard("0-5-0", Spades, 5) >>

\* new Game(io, roomId, players, mode) with a bot on every seat
BotInit ==
    /\ players = [s \in Seats |-> [isBot |-> TRUE]]
    /\ prevWinners = <<>>
    /\ activeTeam = 0
    /\ teamLevels = [t \in {0, 1} |-> 2]
    /\ currentPhase = "Waiting"
    /\ level = 2
    /\ hands = [s \in Seats |-> <<>>]
    /\ currentTurn = 0
    /\ lastHand = NoLast
    /\ roundActions = NoActions
    /\ winners = <<>>
    /\ tributeState = EmptyTribute
    /\ botTimers = [s \in Seats |-> 0]
    /\ gameEndCalls = 0
    /\ played = [id \in ids(BotDeck) |-> 0]
    /\ tributeCards = [s \in Seats |-> NoCard]
    /\ dealt = [s \in Seats |-> <<>>]
    /\ tributeEdges = {}
    /\ ev = mkEv("new", "match", 0, "ok", <<>>, NoHand)
    /\ room = newRoom
    /\ matches = <<>>
    /\ call = NoCall

\* game.resetAndStart() of the test run
BotStart ==
    /\ currentPhase = "Waiting"
    /\ \E seed \in 1..NumBotShuffles :
          Becomes(startWith([G EXCEPT !.ev = mkEv("start", "match", 0, "ok", <<>>, NoHand)],
                            BotDeck, seed))

\* the task loop of the test run takes the next timer callback
BotNext == BotStart \/ BotTimer

BotSpec == BotInit /\ [][BotNext]_vars

\* ------------------------------------------------------------ the room
\* the finishing order of the deals, the deck order of their shuffles, and
\* the names the clients give when they join: two names, shared by the
\* clients
RoomOrders == { <<0, 2, 1, 3>> }
RoomSeeds == { 1 }
Names == { "ann", "bob" }
nameOf(socket) == IF socket % 2 = 1 THEN "ann" ELSE "bob"

RoomInit ==
    /\ NoDeal
    /\ call = NoCall
    /\ room = newRoom
    /\ matches = <<>>

\* the Room and its Match objects become P, which holds no more than
\* MaxMatches of them
RoomBecomes(P) ==
    /\ Len(P.matches) <= MaxMatches
    /\ room' = P.room
    /\ matches' = P.matches
    /\ UNCHANGED << gameVars, call >>

\* the connected sockets: those of the seats held by a human who is there
\* (a socket that was refused a seat has no listener bound)
seated ==
    {room.players[i].id : i \in {j \in Seats : /\ room.players[j] # NoPlayer
                                               /\ ~room.players[j].isBot
                                               /\ ~room.players[j].isDisconnected}}

\* the ids kept in the seats, and the id of a socket that connects, one of
\* n: ids are unique among the sockets the Room still knows
knownIds == {room.players[i].id : i \in {j \in Seats : room.players[j] # NoPlayer}}
newSockets(n) == IF (1..n) \ knownIds = {} THEN {} ELSE {SetMin((1..n) \ knownIds)}

\* the names of the seats whose client is gone
lostNames ==
    {room.players[i].name : i \in {j \in Seats : /\ room.players[j] # NoPlayer
                                                 /\ room.players[j].isDisconnected}}

\* joinRoom from a socket that has just connected: a client that comes back
\* gives the name it had, a new client the name that is its own
JoinOf(n) ==
    \E socket \in newSockets(n) :
        \E name \in lostNames \cup {nameOf(socket)} :
            RoomBecomes(addPlayer(RM(room, matches), socket, name))

Join == JoinOf(MaxSockets)

Ready ==
    \E socket \in seated, seed \in RoomSeeds :
        RoomBecomes(setReady(RM(room, matches), getSeat(room, socket), seed))

StartCommand ==
    \E socket \in seated, seed \in RoomSeeds :
        RoomBecomes(forceStart(RM(room, matches), getSeat(room, socket), seed))

ForceEnd ==
    \E socket \in seated : RoomBecomes(handleForceEnd(RM(room, matches), socket))

SwitchSeat ==
    \E socket \in seated, targetSeat \in 0..4 :
        RoomBecomes(switchSeat(RM(room, matches), socket, targetSeat))

Disconnect ==
    \E socket \in seated : RoomBecomes(handleDisconnect(RM(room, matches), socket))

\* joinRoom from a socket that holds a seat already: the listener of
\* io.on('connection') stays bound after the first joinRoom
Rejoin ==
    \E socket \in seated :
        \E name \in lostNames \cup {nameOf(socket)} :
            RoomBecomes(addPlayer(RM(room, matches), socket, name))

\* the lobby of a room whose clients may send joinRoom again
LobbyNext == Join \/ Rejoin \/ Disconnect

LobbySpec == RoomInit /\ [][LobbyNext]_vars

\* the deal of the engine some Match created last comes to its end
RoomGameEnds ==
    \E k \in 1..Len(matches), w \in RoomOrders :
        /\ matches[k].game.currentPhase \notin {"none", "Score"}
        /\ RoomBecomes(RM(room, [matches EXCEPT ![k] = gameEnds(@, w)]))

\* a grace timer of some Match fires
RoomGraceTimer ==
    \E k \in 1..Len(matches), seed \in RoomSeeds :
        /\ matches[k].graceTimers > 0
        /\ RoomBecomes(RM(room,
              [matches EXCEPT ![k] =
                  [startNextGame([matchOf(RM(room, matches), k) EXCEPT !.graceTimers = @ - 1], seed)
                      EXCEPT !.players = matches[k].players]]))

\* the Room under the commands of its clients, while the deals of its
\* matches are being played
RoomNext == Join \/ Ready \/ StartCommand \/ ForceEnd \/ SwitchSeat \/ Disconnect

RoomSpec == RoomInit /\ [][RoomNext]_vars

\* the Room of a few clients through whole matches
SeriesJoin == JoinOf(MaxClients)

SeriesNext ==
    \/ SeriesJoin \/ Ready \/ StartCommand \/ ForceEnd \/ Disconnect
    \/ RoomGameEnds \/ RoomGraceTimer

SeriesSpec == RoomInit /\ [][SeriesNext]_vars

\* ---------------------------------------------------------- properties
\* the seat's socket or its bot timer had a playHand accepted in this step
AcceptedPlay == ev' # ev /\ ev'.op = "playHand" /\ ev'.res = "ok"

\* C1: at every state of a deal the four hands together with the cards
\* played so far hold each card of the deck exactly once and no other card,
\* whatever card payloads the clients sent
CardConservation ==
    currentPhase \in {"Tribute", "ReturnTribute", "Playing", "Score"} =>
        \A id \in CardIds :
            LET held == [s \in Seats |-> Len(onlyIds(hands[s], {id}))]
            IN  held[0] + held[1] + held[2] + held[3] + played[id]
                    = (IF id \in ids(createDeck) THEN 1 ELSE 0)

\* C2: a play accepted over another seat's lastPlay beats it under the
\* classification the classifier gives the played cards, and that
\* classification is what is stored as the new lastPlay, whatever hand type
\* the client sent along
AcceptedPlayBeatsAsClassified ==
    [][(AcceptedPlay /\ lastHand # NoLast /\ lastHand.playerIndex # ev'.seat) =>
           /\ compareHands(getHandType(ev'.cards, level), lastHand.hand) > 0
           /\ lastHand'.hand = getHandType(ev'.cards, level)]_vars

\* C3: an accepted playHand of n cards names n distinct cards, all of them in
\* the seat's hand; the hand shrinks by exactly n and the other hands stay
AcceptedPlayRemovesItsCards ==
    [][AcceptedPlay =>
           LET S == ev'.seat
               cards == ev'.cards
           IN  /\ Cardinality(ids(cards)) = Len(cards)
               /\ ids(cards) \subseteq ids(hands[S])
               /\ Len(hands'[S]) = Len(hands[S]) - Len(cards)
               /\ \A o \in Seats \ {S} : hands'[o] = hands[o]]_vars

\* C4: a playHand or pass of seat S, from its socket or from its bot timer,
\* changes the state of the deal only when the phase is Playing and S is the
\* seat to act
OnlyCurrentSeatActs ==
    [][(/\ ev'.op \in {"playHand", "pass", "botTurn"}
        /\ << currentPhase, hands, currentTurn, lastHand, roundActions, winners, tributeState >>'
             # << currentPhase, hands, currentTurn, lastHand, roundActions, winners, tributeState >>)
       => (currentPhase = "Playing" /\ currentTurn = ev'.seat)]_vars

\* during play a bot timer fired for a seat that was not the seat to act,
\* and was dropped
StaleTimerSeen ==
    /\ currentPhase = "Playing"
    /\ ev.op = "botTurn" /\ ev.res = "abort"
    /\ ev.seat # currentTurn

\* C5: a playHand that is not accepted (wrong phase, not the sender's turn,
\* invalid hand, not beating lastPlay, a card not in the sender's hand)
\* leaves currentTurn, the hands, lastPlay, the round actions, winners and
\* the phase as they were
RejectedPlayChangesNothing ==
    \A s \in Seats, pht \in ProvidedChoices :
        \A cards \in payloads(payloadCards(s), MaxPlayLen) :
            LET g2 == handlePlayHand(G, "socket", s, cards, pht)
                inferred == getHandType(cards, level)
                compared == IF pht # <<>> THEN pht[1] ELSE inferred
                accepted == g2.ev # ev /\ g2.ev.op = "playHand" /\ g2.ev.res = "ok"
                refused ==
                    \/ currentPhase # "Playing"
                    \/ currentTurn # s
                    \/ inferred = NoHand
                    \/ /\ lastHand # NoLast
                       /\ lastHand.playerIndex # s
                       /\ compareHands(compared, lastHand.hand) <= 0
                    \/ ~(ids(cards) \subseteq ids(hands[s]))
            IN  /\ refused => ~accepted
                /\ ~accepted =>
                      << g2.currentTurn, g2.hands, g2.lastHand, g2.roundActions,
                         g2.winners, g2.currentPhase >>
                      = << currentTurn, hands, lastHand, roundActions, winners, currentPhase >>

\* in the middle of a trick, after a seat had finished, a playHand naming
\* a card its sender does not hold was refused
PlayRefusedSeen ==
    /\ ev.op = "playHand"
    /\ ev.res = "You do not have these cards"
    /\ lastHand # NoLast
    /\ winners # <<>>

\* the seats with no card left, and whether they decide the deal
emptied(h) == {s \in Seats : h[s] = <<>>}
decided(h) == \/ Cardinality(emptied(h)) >= 3
              \/ \E t \in {0, 1} : {t, t + 2} \subseteq emptied(h)

\* C6: Playing ends exactly when a team has emptied both hands or three
\* seats have emptied theirs, in the step of the play that makes it so; no
\* Playing state has such hands; at Score winners is a permutation of the
\* seats that begins with the seats that emptied their hands, in that order
PlayingEndsExactlyWhenDecided ==
    /\ [](currentPhase = "Playing" => ~decided(hands))
    /\ [](currentPhase = "Score" =>
             /\ decided(hands)
             /\ Len(winners) = 4
             /\ Range(winners) = Seats
             /\ \A i, j \in 1..4 : (i < j /\ hands[winners[j]] = <<>>)
                                       => hands[winners[i]] = <<>>)
    /\ [][currentPhase = "Playing" =>
             /\ decided(hands') = (currentPhase' = "Score")
             /\ \A s \in emptied(hands') \ emptied(hands) :
                    /\ emptied(hands') = emptied(hands) \cup {s}
                    /\ SubSeq(winners', 1, Len(winners) + 1) = Append(winners, s)
             /\ emptied(hands') = emptied(hands) => winners' = winners]_vars

\* a deal ended by a double win while both opponents still hold cards
DoubleWinSeen ==
    /\ currentPhase = "Score"
    /\ Len(winners) = 4
    /\ isSameTeam(winners[1], winners[2])
    /\ hands[winners[3]] # <<>> /\ hands[winners[4]] # <<>>

\* the order of the phases of a deal
phaseRank ==
    [ph \in {"Waiting", "Dealing", "Tribute", "ReturnTribute", "Playing", "Score"} |->
        CASE ph = "Waiting" -> 0 [] ph = "Dealing" -> 1 [] ph = "Tribute" -> 2
          [] ph = "ReturnTribute" -> 3 [] ph = "Playing" -> 4 [] ph = "Score" -> 5]

\* C7: the phase only moves forward along Waiting, Dealing, Tribute,
\* ReturnTribute, Playing, Score (the tribute phases may be absent); once at
\* Score nothing changes the phase, the hands, winners, lastPlay or
\* currentTurn, and the game-end callback has fired exactly once
PhaseOnlyForward ==
    /\ [][/\ phaseRank[currentPhase] <= phaseRank[currentPhase']
          /\ currentPhase = "Tribute" => currentPhase' \in {"Tribute", "ReturnTribute"}
          /\ currentPhase' = "Score" => currentPhase \in {"Playing", "Score"}]_vars
    /\ [][currentPhase = "Score" =>
             UNCHANGED << currentPhase, hands, winners, lastHand, currentTurn,
                          gameEndCalls >>]_vars
    /\ [](gameEndCalls = IF currentPhase = "Score" THEN 1 ELSE 0)

\* after the deal ended, a bot timer left over fired at the seat that made
\* the last play
TimerAfterScoreSeen ==
    /\ currentPhase = "Score"
    /\ gameEndCalls = 1
    /\ ev.op = "botTurn"
    /\ ev.seat = currentTurn

\* C8: a tribute from a pending payer is accepted only if the offered card
\* is in the payer's hand and has the largest logic value of that hand; an
\* accepted one moves that one card from the payer's hand to the
\* recipient's, a rejected one leaves the hands and the tribute state
TributeIsTheLargestHeldCard ==
    [][(ev' # ev /\ ev'.op = "tribute") =>
          IF ev'.res = "ok"
          THEN LET S == ev'.seat
                   card == ev'.cards[1]
                   to == tributeState.pendingTributes[
                             findPending(tributeState.pendingTributes, S)].to
               IN  /\ card.id \in ids(hands[S])
                   /\ getLogicValue(card.rank, level)
                        = getLogicValue(getLargestCard(hands[S], level).rank, level)
                   /\ hands'[S] = withoutIds(hands[S], {card.id})
                   /\ Len(hands'[S]) = Len(hands[S]) - 1
                   /\ hands'[to] = sortCards(Append(hands[to], card), level)
                   /\ \A o \in Seats \ {S, to} : hands'[o] = hands[o]
          ELSE UNCHANGED << hands, tributeState >>]_vars

\* C9: when tribute and return-tribute are complete the deal enters Playing
\* with currentTurn the payer of the largest tribute card, the last-place
\* seat of the previous deal on a tie, whichever payers are bots
LargestTributePayerLeads ==
    LET payers == {s \in Seats : tributeCards[s] # NoCard}
        val(s) == getLogicValue(tributeCards[s].rank, level)
        best == {s \in payers : \A o \in payers : val(o) <= val(s)}
    IN  (/\ currentPhase = "Playing"
         /\ ev.op \in {"start", "returnTribute"}
         /\ payers # {})
        => /\ currentTurn \in best
           /\ prevWinners[4] \in best => currentTurn = prevWinners[4]

\* C10: once every tribute is collected each return owed by a bot is made
\* by the engine itself, whether the last tribute came from a bot when the
\* phase was entered or later from a human
BotReturnsNeedNoCommand ==
    currentPhase = "ReturnTribute" =>
        \A i \in 1..Len(tributeState.pendingReturns) :
            tributeState.pendingReturns[i].card = NoCard
                => ~players[tributeState.pendingReturns[i].from].isBot

\* start() of a deal that follows a finished one ran in this step
RestartStep == currentPhase = "Waiting" /\ ev'.op = "start" /\ Len(prevWinners) = 4

\* the payers of the dealt hands together hold both BigJokers
Resisting(h) ==
    bigJokerCount(h, prevWinners[1], prevWinners[2], prevWinners[3], prevWinners[4]) = 2

\* C11: at the start of a deal after the first, when the would-be payers
\* (third and fourth after a double win, fourth after a single win) together
\* hold exactly two BigJokers, the deal goes straight to Playing with the
\* previous winner to act, no tribute edge is created and no card moves
AntiTributeSkipsTribute ==
    [][(RestartStep /\ Resisting(dealt')) =>
          /\ currentPhase' = "Playing"
          /\ currentTurn' = prevWinners[1]
          /\ tributeEdges' = {}
          /\ tributeState' = EmptyTribute
          /\ tributeCards' = [s \in Seats |-> NoCard]
          /\ hands' = dealt']_vars

\* after a double win the two losers were dealt one BigJoker each and the
\* deal began at Playing
ResistanceSeen ==
    /\ ev.op = "start"
    /\ Len(prevWinners) = 4
    /\ isSameTeam(prevWinners[1], prevWinners[2])
    /\ Resisting(dealt)
    /\ \E i \in 1..Len(dealt[prevWinners[3]]) : dealt[prevWinners[3]][i].rank = BigJoker
    /\ currentPhase = "Playing"

\* the tribute edges a finishing order calls for
expectedEdges(w) ==
    IF isSameTeam(w[1], w[2]) THEN {<< w[4], w[1] >>, << w[3], w[2] >>}
    ELSE IF isSameTeam(w[1], w[3]) THEN {<< w[4], w[1] >>}
    ELSE {}

\* C12: without resistance, the tribute edges made pending for the previous
\* finishing order p1..p4 are p4 to p1 and p3 to p2 when p1 and p2 are
\* partners, p4 to p1 alone when p1 and p3 are partners, and none, the deal
\* going straight to Playing, when p1 and p4 are partners
TributeEdgesFollowFinishingOrder ==
    [][(RestartStep /\ (Resisting(dealt') => expectedEdges(prevWinners) = {})) =>
          /\ tributeEdges' = expectedEdges(prevWinners)
          /\ \A i \in 1..Len(tributeState'.pendingTributes) :
                << tributeState'.pendingTributes[i].from, tributeState'.pendingTributes[i].to >>
                    \in expectedEdges(prevWinners)
          /\ currentPhase' = "Tribute" =>
                Len(tributeState'.pendingTributes) = Cardinality(expectedEdges(prevWinners))
          /\ expectedEdges(prevWinners) = {} =>
                /\ currentPhase' = "Playing"
                /\ tributeState' = EmptyTribute
                /\ hands' = dealt']_vars

\* a deal whose previous winner and last seat are partners began at Playing
\* with nothing pending
TieSkipsTributeSeen ==
    /\ ev.op = "start"
    /\ Len(prevWinners) = 4
    /\ ~isSameTeam(prevWinners[1], prevWinners[2])
    /\ isSameTeam(prevWinners[1], prevWinners[4])
    /\ currentPhase = "Playing"
    /\ tributeEdges = {}

\* the Match of the match controller, and whether a deal of it ended or a
\* grace timer of it fired in this step
theMatch == matches[1]
DealEnded == theMatch.game.currentPhase # "Score" /\ theMatch'.game.currentPhase = "Score"
TimerFired == theMatch'.graceTimers < theMatch.graceTimers

\* the step the rules give a finishing order
stepOf(w) == IF w[1] % 2 = w[2] % 2 THEN 3 ELSE IF w[1] % 2 = w[3] % 2 THEN 2 ELSE 1

\* C13: at the end of a deal with finishing order p1..p4 the controller raises
\* the level of p1's team by 3 when p1 and p2 are partners, else by 2 when p1
\* and p3 are, else by 1, to at most 14; p1's team becomes the active team,
\* the other team's level stays, and no other step changes a team level
LevelUpOncePerDeal ==
    [][IF DealEnded
       THEN LET w == theMatch'.game.winners
                T == w[1] % 2
                raised == theMatch.teamLevels[T] + stepOf(w)
            IN  /\ theMatch'.teamLevels[T] = IF raised > 14 THEN 14 ELSE raised
                /\ theMatch'.teamLevels[1 - T] = theMatch.teamLevels[1 - T]
                /\ theMatch'.activeTeam = T
       ELSE /\ theMatch'.teamLevels = theMatch.teamLevels
            /\ theMatch'.activeTeam = theMatch.activeTeam]_vars

\* a team at level 13 won with its partner third and stands at 14, not 15
LevelCappedSeen ==
    /\ theMatch.game.currentPhase = "Score"
    /\ Len(theMatch.finished) > 0
    /\ theMatch.finished[Len(theMatch.finished)].level = 13
    /\ stepOf(theMatch.game.winners) = 2
    /\ theMatch.teamLevels[theMatch.game.winners[1] % 2] = 14

\* C14: matchOver is emitted for a team only when it has just won two deals
\* in a row, each begun with the team's level already at 14; a win that
\* lifts the level to 14 is not one of the two
MatchOverAfterTwoWinsAtFourteen ==
    [][(theMatch'.mev = "matchOver" /\ theMatch.mev # "matchOver") =>
          /\ Len(theMatch'.finished) = 2
          /\ \A i \in 1..2 :
                /\ theMatch'.finished[i].team = theMatch'.matchWinner
                /\ theMatch'.finished[i].level = 14]_vars

\* a grace timer started a deal, and the deal it started is as the
\* controller stood: its team levels, its active team, the finishing order
\* of the deal before, and the active team's level as its level
ChainStep == TimerFired /\ theMatch'.mev = "started"
ChainedRight ==
    /\ theMatch'.currentGame
    /\ theMatch'.game.currentPhase \in {"Tribute", "ReturnTribute", "Playing"}
    /\ theMatch'.game.teamLevels = theMatch.teamLevels
    /\ theMatch'.game.activeTeam = theMatch.activeTeam
    /\ theMatch'.game.prevWinners = theMatch.game.winners
    /\ Len(theMatch'.game.prevWinners) = 4
    /\ theMatch'.game.level = theMatch.teamLevels[theMatch.activeTeam]
    /\ theMatch'.teamLevels = theMatch.teamLevels

\* C15: after a deal ends without deciding the match a new deal engine is
\* eventually started, by the grace timer, with the controller's updated team
\* levels and active team, the finished deal's finishing order as its
\* previous winners and the active team's level as its level; so for the
\* second and every later deal of a match
DealChaining ==
    /\ [][ChainStep => ChainedRight]_vars
    /\ [][TimerFired => (theMatch.matchWinner = NoTeam => ChainStep)]_vars
    /\ (theMatch.mev = "gameEnd") ~> (theMatch.mev = "started")

\* the third deal of a match was started after a deal that raised a level
ThirdDealSeen ==
    /\ theMatch.mev = "started"
    /\ ~theMatch.forced
    /\ Len(theMatch.finished) = 2
    /\ theMatch.game.prevWinners = <<1, 0, 3, 2>>
    /\ theMatch.game.level = theMatch.teamLevels[1]
    /\ theMatch.game.level > 2

\* C16: once forceEnd is handled no deal engine of the match is created or
\* started any more, not by a grace timer that was pending either
NoDealAfterForceEnd ==
    [][theMatch.forced =>
          /\ theMatch'.mev # "started"
          /\ theMatch'.game = theMatch.game]_vars

\* ------------------------------------------------------ the Room's rules
\* C17: a forceEnd from seat 0 while the room has a match leaves the room
\* with no match and every seat not ready; a forceEnd from any other seat,
\* or with no match, is answered with the private error and leaves the
\* seats, the match handle and every Match and its deal as they were
ForceEndOnlyByHost ==
    \A socket \in seated :
        LET after == handleForceEnd(RM(room, matches), socket)
        IN  IF getSeat(room, socket) = 0 /\ room.match # 0
            THEN /\ after.room.match = 0
                 /\ \A s \in Seats : ~after.room.players[s].isReady
            ELSE /\ after.emitted = "error"
                 /\ after.room.players = room.players
                 /\ after.room.match = room.match
                 /\ after.room.shared = room.shared
                 /\ after.matches = matches

\* the host has ended a match whose grace timer was pending, with a second
\* client in the room, whose forceEnd is refused before and after
ForceEndSeen ==
    /\ room.match = 0
    /\ \A s \in Seats : room.players[s] # NoPlayer /\ ~room.players[s].isReady
    /\ \E k \in 1..Len(matches) : matches[k].forced /\ matches[k].graceTimers > 0
    /\ \E s \in Seats \ {0} : room.players[s].id \in seated


\* C18: a join whose name is the stored name of a disconnected seat takes
\* that seat back (same index, the new socket bound, no other seat changed);
\* any other join takes the lowest empty seat; with no empty seat the join is
\* refused with the private error and the seats stay as they were. The
\* occupant stored at index i always has seatIndex i
JoinTakesItsSeat ==
    /\ \A i \in Seats : room.players[i] # NoPlayer => room.players[i].seatIndex = i
    /\ \A socket \in (1..MaxSockets + 1) \ knownIds, name \in Names :
          LET after == addPlayer(RM(room, matches), socket, name)
              lost == {i \in Seats : /\ room.players[i] # NoPlayer
                                     /\ room.players[i].name = name
                                     /\ room.players[i].isDisconnected}
              empty == {i \in Seats : room.players[i] = NoPlayer}
          IN  IF lost # {}
              THEN \E i \in lost :
                      after.room.players = [room.players EXCEPT ![i].id = socket,
                                                                ![i].isDisconnected = FALSE]
              ELSE IF empty # {}
              THEN /\ after.room.players[SetMin(empty)].id = socket
                   /\ after.room.players[SetMin(empty)].name = name
                   /\ after.room.players[SetMin(empty)].seatIndex = SetMin(empty)
                   /\ \A j \in Seats \ {SetMin(empty)} : after.room.players[j] = room.players[j]
              ELSE /\ after.emitted = "error"
                   /\ after.room.players = room.players

\* a client has come back to its seat on a new socket during a match, while
\* another client sits in a seat it switched to
ReconnectSeen ==
    /\ room.match # 0
    /\ \E i \in Seats : /\ room.players[i].id \in seated
                        /\ room.players[i].name # nameOf(room.players[i].id)
    /\ \E i \in Seats \ {0} : /\ room.players[i].id \in seated
                              /\ room.players[i - 1].isBot


\* a match of the room is in progress: started, neither force-ended nor won
matchInProgress == room.match # 0 /\ matches[room.match].matchWinner = NoTeam

\* a deal of that match is being played
dealInProgress ==
    /\ matchInProgress
    /\ matches[room.match].currentGame
    /\ matches[room.match].game.currentPhase \notin {"none", "Waiting", "Score"}

\* C19: when the socket of a seated human disconnects while no match is in
\* progress (none started, the match force-ended or already won) the seat
\* becomes empty; while a deal is in progress the seat stays occupied and
\* is marked disconnected, and the deal is left as it was
DisconnectClearsSeatOutsideMatch ==
    \A socket \in seated :
        LET after == handleDisconnect(RM(room, matches), socket)
            index == findSocket(room, socket)
        IN  /\ ~matchInProgress => after.room.players[index] = NoPlayer
            /\ dealInProgress =>
                  /\ after.room.players[index] # NoPlayer
                  /\ after.room.players[index].isDisconnected
                  /\ after.room.players[index].seatIndex = index
                  /\ after.matches = matches


\* the ready command of the seat makes all four seats ready
completesReady(seat) ==
    /\ ~room.players[seat].isReady
    /\ \A s \in Seats \ {seat} : room.players[s] # NoPlayer /\ room.players[s].isReady

\* C20: whenever a ready command makes all four seats ready while no match
\* is in progress, a match starts in that step: the first match of the
\* room, and again after a match of the room was won or force-ended
AutoStartWhenAllReady ==
    \A socket \in seated, seed \in RoomSeeds :
        LET seat == getSeat(room, socket)
            after == setReady(RM(room, matches), seat, seed)
        IN  completesReady(seat) /\ ~matchInProgress =>
                /\ Len(after.matches) = Len(matches) + 1
                /\ after.room.match = Len(after.matches)
                /\ after.matches[after.room.match].mev = "started"
                /\ after.matches[after.room.match].matchWinner = NoTeam


\* C21: a start command from seat 0 with no match in progress begins a
\* match in which every seat that was empty holds a bot and every occupied
\* seat keeps its occupant; a start command from another seat changes
\* nothing, and one sent while a match is in progress neither replaces nor
\* restarts that match
StartOnlyByHost ==
    \A socket \in seated, seed \in RoomSeeds :
        LET seat == getSeat(room, socket)
            after == forceStart(RM(room, matches), seat, seed)
            k == after.room.match
        IN  IF seat = 0 /\ ~matchInProgress
            THEN /\ Len(after.matches) = Len(matches) + 1
                 /\ k = Len(after.matches)
                 /\ after.matches[k].mev = "started"
                 /\ \A s \in Seats :
                       /\ IF room.players[s] = NoPlayer
                          THEN after.room.players[s].isBot /\ after.room.players[s].seatIndex = s
                          ELSE after.room.players[s] = room.players[s]
                       /\ after.matches[k].game.players[s].isBot = after.room.players[s].isBot
            ELSE /\ after.room = room
                 /\ after.matches = matches

\* the host has started a match after the first one was won, and a second
\* client, whose start commands change nothing, is in the room
StartAfterWinSeen ==
    /\ Len(matches) = 2
    /\ matches[1].matchWinner # NoTeam
    /\ room.match = 2
    /\ \E s \in Seats : room.players[s].isBot
    /\ \E s \in Seats \ {0} : room.players[s].id \in seated


\* the seats that hold someone
occupied(pl) == {s \in Seats : pl[s] # NoPlayer}

\* C22: a switchSeat to seat t takes effect only when no match is active
\* and seat t is empty: it moves the sender to t and empties the seat it
\* had, the other seats and the number of occupied seats staying as they
\* were; in every other case (a match active, t occupied, t outside 0..3,
\* the sender not seated) the seats are unchanged
SwitchSeatOnlyToEmptySeat ==
    \A socket \in 1..(MaxSockets + 1), t \in -1..4 :
        LET after == switchSeat(RM(room, matches), socket, t)
            from == findSocket(room, socket)
        IN  /\ after.matches = matches
            /\ after.room.match = room.match
            /\ IF /\ ~matchInProgress
                  /\ t \in Seats
                  /\ from # -1
                  /\ room.players[t] = NoPlayer
               THEN /\ after.room.players[t] = [room.players[from] EXCEPT !.seatIndex = t]
                    /\ after.room.players[from] = NoPlayer
                    /\ \A s \in Seats \ {t, from} : after.room.players[s] = room.players[s]
                    /\ Cardinality(occupied(after.room.players)) =
                          Cardinality(occupied(room.players))
               ELSE after.room.players = room.players

\* before any match, the client that joined first sits in seat 2 and seat
\* 0 is empty: joins alone seat the first socket of a room in seat 0
SwitchSeen ==
    /\ matches = <<>>
    /\ room.players[0] = NoPlayer
    /\ room.players[2].id = 1
    /\ room.players[1] # NoPlayer


\* ------------------------------------------------------------- snapshots
\* the hands that differ from h only in which cards the seats other than
\* idx hold: two of them have exchanged a card, or one of them holds a
\* card nobody held in the place of one of its own
otherDeals(h, idx) ==
    { [h EXCEPT ![a][i] = h[b][j], ![b][j] = h[a][i]] :
         <<a, i, b, j>> \in { q \in (Seats \ {idx}) \X (1..HandSize) \X (Seats \ {idx}) \X (1..HandSize) :
                               /\ q[1] < q[3]
                               /\ q[2] <= Len(h[q[1]])
                               /\ q[4] <= Len(h[q[3]]) } }
    \cup
    { [h EXCEPT ![a][i] = ForgedCards[1]] :
         <<a, i>> \in { q \in (Seats \ {idx}) \X (1..HandSize) : q[2] <= Len(h[q[1]]) } }

\* C23: the hands field of every gameState snapshot sent to seat i, by a
\* broadcast or on reconnect, holds the cards of seat i and of every other
\* seat only the number of its cards, so that deals which differ only in
\* which cards the other seats hold give seat i the same hands field
SnapshotShowsOwnHandOnly ==
    \A idx \in Seats :
        /\ gameStateHands(hands, idx)[idx].cards = hands[idx]
        /\ \A i \in Seats \ {idx} : gameStateHands(hands, idx)[i] = countOnly(hands[i])
        /\ reconnectHands(hands, [seatIndex |-> idx]) = gameStateHands(hands, idx)
        /\ \A other \in otherDeals(hands, idx) :
              /\ gameStateHands(other, idx) = gameStateHands(hands, idx)
              /\ reconnectHands(other, [seatIndex |-> idx]) = reconnectHands(hands, [seatIndex |-> idx])

\* the play of a human seat was accepted and broadcast while its partner
\* and an opponent, humans too, held cards they could have exchanged
SnapshotSeen ==
    /\ currentPhase = "Playing"
    /\ ev.op = "playHand" /\ ev.res = "ok" /\ ev.via = "socket"
    /\ \A s \in Seats : ~players[s].isBot
    /\ Len(hands[(ev.seat + 2) % 4]) > 0
    /\ Len(hands[(ev.seat + 1) % 4]) > 0
    /\ \E other \in otherDeals(hands, ev.seat) : other # hands


\* C24: in every reachable state of a deal, whatever cards the play,
\* tribute and returnTribute commands name, no identity tag occurs twice
\* in the hand of a seat and none occurs in the hands of two seats
IdentityUniqueness ==
    /\ \A s \in Seats : \A i, j \in 1..Len(hands[s]) :
          i # j => hands[s][i].id # hands[s][j].id
    /\ \A s, t \in Seats : s # t => ids(hands[s]) \cap ids(hands[t]) = {}


\* ------------------------------------------------------- the comparator
\* the two Hands compared and the two results, A with B and B with A
handA == call.args[1]
handB == call.args[2]
Compared == call.fn = "compareHands" /\ call.result # <<>>

\* C25: for all Hands A and B the classifier returns, compareHands(A, B) > 0
\* implies compareHands(B, A) < 0, also when both are of one bomb type,
\* both FourKings included
ComparatorAntisymmetry ==
    Compared => (call.result[1] > 0 => call.result[2] < 0)


\* the bomb family and its rungs, from the top: FourKings, a bomb of six
\* or more cards, StraightFlush, a bomb of five, a bomb of four
bombFamily(h) == h.type \in {"FourKings", "Bomb", "StraightFlush"}
rung(h) ==
    IF h.type = "FourKings" THEN 4
    ELSE IF h.type = "Bomb" /\ h.bombCount >= 6 THEN 3
    ELSE IF h.type = "StraightFlush" THEN 2
    ELSE IF h.type = "Bomb" /\ h.bombCount = 5 THEN 1
    ELSE 0
sign(n) == IF n > 0 THEN 1 ELSE IF n < 0 THEN -1 ELSE 0

allBots == \A s \in Seats : players[s].isBot

\* C27: a deal of four bots goes on by itself: every bot decision taken at
\* the bot's turn is an accepted play or an accepted pass, and while the
\* deal is in Playing a bot decision is pending for the seat to act, so
\* that the deal never stays in Playing with nothing scheduled
BotDealKeepsGoing ==
    allBots =>
        /\ ev.via = "timer" /\ ev.op \in {"playHand", "pass"} => ev.res = "ok"
        /\ currentPhase = "Playing" => botTimers[currentTurn] > 0

\* C28: a pass of the seat to act is rejected, and leaves the deal as it
\* is, when no play is on the table or the play on the table is the
\* seat's own; a pass that is accepted changes no hand, and it leaves the
\* play on the table as it is unless it ends the trick, which clears it
PassRejectedOnFreeTurn ==
    \A s \in Seats :
        LET after == handlePass(G, "socket", s)
        IN  currentPhase = "Playing" /\ currentTurn = s =>
                IF lastHand = NoLast \/ lastHand.playerIndex = s
                THEN /\ after.ev.res = "Cannot pass on free turn"
                     /\ [after EXCEPT !.ev = ev] = G
                ELSE /\ after.ev.res = "ok"
                     /\ after.hands = hands
                     /\ after.lastHand # lastHand =>
                            after.lastHand = NoLast /\ after.roundActions = NoActions

\* the seat to act has passed on a free turn and was turned away
FreeTurnPassSeen ==
    /\ ev.op = "pass" /\ ev.res = "Cannot pass on free turn"
    /\ currentPhase = "Playing" /\ currentTurn = ev.seat
    /\ lastHand = NoLast \/ lastHand.playerIndex = ev.seat

\* the seats other than seat a that hold cards
holdersBut(a) == {t \in Seats : t # a /\ Len(hands[t]) > 0}

\* C29: with the play of seat A on the table, a pass of the seat to act
\* ends the trick exactly when it is the last pass owed, that is when every
\* other seat that holds cards has passed; the pass that ends the trick
\* clears the play on the table and the round actions and, if A holds
\* cards, gives the turn to A; any earlier pass leaves the play on the table
TrickEndsAfterLastPass ==
    \A s \in Seats :
        LET A == lastHand.playerIndex
            after == handlePass(G, "socket", s)
            allPassed == \A t \in holdersBut(A) : t = s \/ roundActions[t] = "pass"
        IN  currentPhase = "Playing" /\ currentTurn = s /\ lastHand # NoLast /\ A # s =>
                IF allPassed
                THEN /\ after.lastHand = NoLast
                     /\ after.roundActions = NoActions
                     /\ Len(hands[A]) > 0 => after.currentTurn = A
                ELSE /\ after.lastHand = lastHand
                     /\ after.roundActions = [roundActions EXCEPT ![s] = "pass"]
                     /\ after.currentTurn \in holdersBut(A) \ {s}
                     /\ roundActions[after.currentTurn] # "pass"

\* three seats that hold cards have passed one after the other and the
\* third pass has given the free lead back to the seat whose play stood
TrickEndSeen ==
    /\ ev.op = "pass" /\ ev.res = "ok"
    /\ currentPhase = "Playing" /\ lastHand = NoLast /\ roundActions = NoActions
    /\ currentTurn = (ev.seat + 1) % 4
    /\ \A t \in Seats : Len(hands[t]) > 0

\* the first seat that holds cards, clockwise from seat a on
firstHolderFrom(a) ==
    LET order == << a, (a + 1) % 4, (a + 2) % 4, (a + 3) % 4 >>
    IN  order[SetMin({i \in 1..4 : Len(hands[order[i]]) > 0})]

\* C30: when the pass of the seat to act ends a trick whose play was made
\* by a seat A that holds no cards any more, the free lead goes to the
\* partner of A if the partner holds cards and to the next seat clockwise
\* that holds cards otherwise, and no play is on the table when that seat
\* gets the lead
JieFengLead ==
    \A s \in Seats :
        LET A == lastHand.playerIndex
            after == handlePass(G, "socket", s)
            allPassed == \A t \in holdersBut(A) : t = s \/ roundActions[t] = "pass"
        IN  /\ currentPhase = "Playing" /\ currentTurn = s /\ lastHand # NoLast /\ A # s
            /\ Len(hands[A]) = 0 /\ allPassed
            => /\ after.currentPhase = "Playing"
               /\ after.lastHand = NoLast
               /\ after.currentTurn = firstHolderFrom((A + 2) % 4)
               /\ Len(hands[(A + 2) % 4]) > 0 => after.currentTurn = (A + 2) % 4

\* a seat played its last cards, the three others, who all hold cards,
\* passed, and the third pass gave the free lead to the partner
JieFengSeen ==
    /\ ev.op = "pass" /\ ev.res = "ok"
    /\ currentPhase = "Playing" /\ lastHand = NoLast
    /\ ev.seat = (currentTurn + 1) % 4
    /\ Len(hands[(currentTurn + 2) % 4]) = 0
    /\ Len(hands[currentTurn]) > 0
    /\ Len(hands[(currentTurn + 3) % 4]) > 0

\* how often seat s stands in the finishing order
timesIn(w, s) == Cardinality({i \in 1..Len(w) : w[i] = s})

\* C31: while a deal is in Playing the seat to act is one of the four seats
\* and holds cards, so a seat that has played its last card does not get
\* the turn again; such a seat stands in winners exactly once, and no seat
\* stands there twice
TurnHolderHasCards ==
    /\ currentPhase = "Playing" =>
          /\ currentTurn \in Seats
          /\ Len(hands[currentTurn]) > 0
    /\ currentPhase \in {"Playing", "Score"} =>
          \A s \in Seats : /\ timesIn(winners, s) <= 1
                           /\ Len(hands[s]) = 0 => timesIn(winners, s) = 1

\* a seat has played its last card, stands in winners, and the turn is with
\* another seat that holds cards
FinishedSeatSkipped ==
    /\ currentPhase = "Playing"
    /\ ev.op = "pass" /\ ev.res = "ok"
    /\ Len(hands[(ev.seat + 1) % 4]) = 0
    /\ timesIn(winners, (ev.seat + 1) % 4) = 1
    /\ lastHand # NoLast
    /\ currentTurn = (ev.seat + 2) % 4

\* the engine of the match has been detached by forceEndMatch
detached == matches[1].forced /\ matches[1].game.currentPhase # "none"

\* C32: once forceEnd has detached the engine of a deal, a bot-decision
\* task of that engine that fires does nothing: it changes no hand, not
\* the turn, the play on the table or the finishing order, ends in no play
\* or pass that is broadcast, sets no further timer, and leaves the levels
\* of the match as they are
DetachedBotTasksAreNoOps ==
    \A s \in Seats :
        LET g == matches[1].game
            after == afterEngine(matches[1], handleBotTurn([g EXCEPT !.botTimers[s] = @ - 1], s))
        IN  detached /\ g.botTimers[s] > 0 =>
                /\ after.game.hands = g.hands
                /\ after.game.currentTurn = g.currentTurn
                /\ after.game.lastHand = g.lastHand
                /\ after.game.winners = g.winners
                /\ after.game.ev.res \notin {"ok", "skip"}
                /\ \A t \in Seats : after.game.botTimers[t] <= g.botTimers[t]
                /\ after.teamLevels = matches[1].teamLevels

\* C33: when the play a bot decides on is turned away by handlePlayHand,
\* the decision counts as a pass: the hand of the bot stays as it is and
\* the turn goes to another seat, so that the deal does not stop at the bot
RejectedBotPlayIsAPass ==
    \A s \in Seats :
        LET move == decideMove(hands[s], level,
                               IF lastHand # NoLast THEN lastHand.hand ELSE NoHand)
            played1 == handlePlayHand(G, "timer", s, move, <<>>)
            after == handleBotTurn(G, s)
        IN  /\ currentPhase = "Playing" /\ currentTurn = s /\ players[s].isBot
            /\ Len(hands[s]) > 0 /\ move # NoMove /\ played1.ev.res # "ok"
            => /\ after.hands = hands
               /\ after.currentTurn # s
               /\ after.currentTurn \in Seats /\ Len(hands[after.currentTurn]) > 0

\* C34: in a match a team has a count of consecutive wins only at level 14,
\* the two teams never both have one, and when a deal has just been won
\* the count of the team that lost it is 0
ConsecutiveWinsOnlyAtFourteen ==
    LET m == matches[1]
    IN  /\ \A t \in {0, 1} : m.consecutiveWins[t] > 0 => m.teamLevels[t] = 14
        /\ m.consecutiveWins[0] = 0 \/ m.consecutiveWins[1] = 0
        /\ m.mev \in {"gameEnd", "matchOver"} => m.consecutiveWins[1 - m.activeTeam] = 0

\* a team at level 14 with a win counted has lost a deal to the other team,
\* which has reached level 14 by it
CounterPassedOn ==
    LET m == matches[1]
    IN  /\ m.mev = "gameEnd"
        /\ Len(m.finished) = 2 /\ m.finished[1].team # m.finished[2].team
        /\ m.finished[1].level = 14
        /\ m.teamLevels[m.activeTeam] = 14
        /\ m.consecutiveWins[m.activeTeam] = 1

\* the levels of the match are in range, and the deal the match runs is
\* played at the level of the active team
LevelsRight ==
    /\ theMatch.activeTeam \in {0, 1}
    /\ \A t \in {0, 1} : theMatch.teamLevels[t] \in 2..14
    /\ theMatch.mev = "started" =>
          /\ theMatch.game.level = theMatch.teamLevels[theMatch.activeTeam]
          /\ theMatch.game.level = theMatch.game.teamLevels[theMatch.game.activeTeam]

\* a step that does not start a deal leaves the level of the deal alone
SameDealSameLevel ==
    theMatch.mev # "new" /\ ~ChainStep => theMatch'.game.level = theMatch.game.level

FullHandsAtFirstPlay ==
    /\ currentPhase = "Playing"
    /\ lastHand = NoLast
    /\ \A id \in DOMAIN played : played[id] = 0
    => \A s \in Seats : Len(hands[s]) = HandSize

\* the ranks of five cards are consecutive, the Ace above the King or
\* below the 2
consecutiveRanks(cards) ==
    LET rs == {cards[i].rank : i \in 1..Len(cards)}
        low == {IF r = Ace THEN 1 ELSE r : r \in rs}
    IN  /\ Cardinality(rs) = 5
        /\ \/ SetMax(rs) - SetMin(rs) = 4
           \/ SetMax(low) - SetMin(low) = 4

\* C37: getHandType answers StraightFlush only for five cards without a
\* wild card among them, all of one suit and of five consecutive ranks, with
\* value 5 when the Ace is the low end; five cards with a wild card among
\* them are never a StraightFlush
StraightFlushIsNatural ==
    LET cards == call.args[1]
        hand == call.result[1]
    IN  call.fn = "getHandType" /\ call.result # <<>> /\ hand.type = "StraightFlush" =>
            /\ \A i \in 1..5 : ~cards[i].isWild
            /\ Cardinality({cards[i].suit : i \in 1..5}) = 1
            /\ consecutiveRanks(cards)
            /\ {cards[i].rank : i \in 1..5} = {Ace, 2, 3, 4, 5} => hand.value = 5

\* C38: while a deal is in Playing the play on the table, if there is one,
\* is not the play of the seat to act; so the seat to act always has a
\* command that is accepted: the pass when a play is on the table, and any
\* single card of its hand on a free lead
SeatToActCanAct ==
    currentPhase = "Playing" =>
        IF lastHand # NoLast
        THEN /\ lastHand.playerIndex # currentTurn
             /\ handlePass(G, "socket", currentTurn).ev.res = "ok"
        ELSE /\ Len(hands[currentTurn]) > 0
             /\ \A i \in 1..Len(hands[currentTurn]) :
                   handlePlayHand(G, "socket", currentTurn,
                                  << hands[currentTurn][i] >>, <<>>).ev.res = "ok"

\* a play stands on the table, a seat has passed on it, and the seat to
\* act next, which holds cards, is not the seat of that play
StandingPlaySeen ==
    /\ currentPhase = "Playing"
    /\ ev.op = "pass" /\ ev.res = "ok"
    /\ lastHand # NoLast
    /\ currentTurn \notin {ev.seat, lastHand.playerIndex}
    /\ Len(hands[currentTurn]) > 0

\* C39: a deal engine that the room has let go of does not react to the
\* commands of a seat: after forceEnd has detached the engine, a playHand
\* or a pass of a human seat leaves that engine exactly as it is, so that
\* it changes no state and broadcasts no snapshot
OnlyCurrentEngineReacts ==
    \A s \in Seats :
        LET g == matches[1].game
        IN  detached /\ ~matches[1].players[s].isBot =>
                /\ handlePass(g, "socket", s) = g
                /\ \A cards \in payloads(g.hands[s], MaxPlayLen) :
                      handlePlayHand(g, "socket", s, cards, <<>>) = g

\* C40: no two seats of a room hold the same session id, also after a
\* session has sent join more than once, so that the seat getSeat finds for
\* a session is the only seat the session holds
SessionHoldsOneSeat ==
    \A i, j \in Seats :
        /\ i # j
        /\ room.players[i] # NoPlayer /\ ~room.players[i].isBot
        /\ room.players[j] # NoPlayer /\ ~room.players[j].isBot
        => room.players[i].id # room.players[j].id

====
